---- MODULE Spec2Model ----
(***************************************************************************)
(* rubydns: a plugin based DNS forwarder.                                  *)
(*                                                                         *)
(* The model covers the server loop (server.rs), the plugin chain          *)
(* (plugins/mod.rs), the isolate pool (plugins/pool.rs, a deadpool managed *)
(* pool) and the host side of the guest ABI (plugins/host_helper/*.rs).    *)
(***************************************************************************)
EXTENDS Integers, Sequences, FiniteSets, TLC

\* ------------------------------------------------------------------ bounds
\* longest plugin list of a chain
MaxChain == 3
\* requests the server loop accepts in one behaviour
MaxReq == 2
\* requests of the clients that are unanswered at the same time
MaxInFlight == 2
\* acceptor errors that are recorded in one behaviour
MaxAcceptErr == 1
\* longest plugin list of the chains served under concurrent load
MaxSrvChain == 2
\* largest native fd number the OS hands out (the smallest is 3, the one
\* after the standard streams)
MaxFd == 4
\* objects one deadpool pool holds at most (Pool::builder's default is four
\* per cpu)
MaxSize == 2
\* request tasks the runtime drops before they ended
MaxCancel == 1
\* requests the server accepts when more of them are in flight than a pool
\* has objects
MaxLive == 3
\* seconds the clock advances in one behaviour
MaxTime == 2
\* longest ttl a guest passes to map_set, in seconds
MaxTtl == 1
\* servers of one configuration file
MaxServers == 2
\* longest plugin list of a server whose start-up is followed
MaxBootChain == 2
\* longest datagram or stream chunk a socket delivers, and largest buffer
\* size a guest asks for
MaxLen == 2
\* nameservers the configuration of the proxy plugin lists
Nameservers == 2
\* worker threads of the runtime that polls the request tasks
Workers == 1

\* ------------------------------------------------- constants of the program
EBADF == 9
ENOTSUP == 95
ECONNREFUSED == 111
SERVFAIL == 2

Fds == 3..MaxFd
Clients == {"c1", "c2"}
Ids == {1, 2}

\* ------------------------------------------------------------ DNS messages
\* trust_dns_proto::op::Message reduced to the header fields the host
\* touches (id, message type, response code), one question and the answer
\* count.
Message(id, qr, rcode, q, an) ==
    [id |-> id, qr |-> qr, rcode |-> rcode, q |-> q, an |-> an]

NoMessage == Message(0, 0, 0, 0, 0)

\* Message::to_vec: id, the flags word (QR bit and RCODE), question, answers
to_vec(m) == <<m.id, m.qr * 16 + m.rcode, m.q, m.an>>

\* Message::from_vec accepts exactly the well formed packets
parses(b) == Len(b) = 4 /\ b[1] \in Ids /\ b[2] < 32 /\ b[3] \in {1, 2}

from_vec(b) == Message(b[1], b[2] \div 16, b[2] % 16, b[3], b[4])

\* bytes that are not a DNS message
Garbage == <<255>>

\* set_message_type(Response); set_response_code(ServFail)
ServFailMut_KeepType(m) == [m EXCEPT !.rcode = SERVFAIL]

ServFailMut(m) == [m EXCEPT !.qr = 1, !.rcode = SERVFAIL]

\* the datagrams a client may send: a query for question 1 under the id the
\* client uses, or bytes that are no DNS message
IdOf(c) == IF c = "c1" THEN 1 ELSE 2
InPackets(c) == {to_vec(Message(IdOf(c), 0, 0, 1, 0)), Garbage}

\* --------------------------------------------------------- guest programs
\* The guest code of a plugin is an input of the host.  The kinds below are
\* the guest programs the model runs:
\*   identity  call_next_plugin(input), return what it gave (the shape of
\*             the cache plugin on a miss, cache/src/lib.rs:55-81)
\*   rewrite   call_next_plugin(a rewritten packet), return what it gave
\*   answer    answer the packet itself
\*   fail      return a PluginError
\*   trap      the guest traps
\*   garbage   return Ok bytes that are no DNS message
\*   empty     answer the packet with a response without answer records
\*             (only behind the cache plugin)
Kinds == {"identity", "rewrite", "answer", "fail", "trap", "garbage"}
Forwarders == {"identity", "rewrite"}

\* results of a plugin's run as the host sees them
Ok(data) == [k |-> "ok", data |-> data]
PluginError == [k |-> "perr", data |-> <<>>]
NoResult == [k |-> "unset", data |-> <<>>]
\* call_next_plugin's Option::None
NoneResult == [k |-> "none", data |-> <<>>]

\* the packet a rewriting guest forwards: same id, another question
Rewrite(b) == IF parses(b) THEN to_vec([from_vec(b) EXCEPT !.q = 3 - @]) ELSE b

\* the reply an answering guest builds for a packet
Answer(b) ==
    IF parses(b)
    THEN Ok(to_vec([from_vec(b) EXCEPT !.qr = 1, !.rcode = 0, !.an = 1]))
    ELSE PluginError

\* the reply of a guest that has no record for the question
Empty(b) ==
    IF parses(b)
    THEN Ok(to_vec([from_vec(b) EXCEPT !.qr = 1, !.rcode = 0, !.an = 0]))
    ELSE PluginError

\* a guest that got none from call_next_plugin reports an error
\* (cache/src/lib.rs:57-62); one that got a result returns it verbatim
AfterNext(got) == IF got.k = "none" THEN PluginError ELSE got

\* ------------------------------------------------------- chain construction
\* PluginChain::new folds the reversed plugin list; every pool is built with
\* the pool built just before it (its successor in the list) as next_plugin.
\* Pools are named by their position in the plugin list, 0 is Option::None.
\* The fold state is the Option<PluginPool> built so far (head) and the
\* next_plugin field every Manager was given (next).
RECURSIVE FoldPools_Unlinked(_, _)
FoldPools_Unlinked(n, st) ==
    IF n = 0 THEN st
    ELSE FoldPools_Unlinked(n - 1, [head |-> n, next |-> st.next @@ (n :> 0)])

RECURSIVE FoldPools(_, _)
FoldPools(n, st) ==
    IF n = 0 THEN st
    ELSE FoldPools(n - 1, [head |-> n, next |-> st.next @@ (n :> st.head)])

\* the fold over the list as given, not reversed
RECURSIVE FoldNotReversed(_, _)
FoldNotReversed(n, st) ==
    IF n = 0 THEN st
    ELSE LET k == Cardinality(DOMAIN st.next) + 1
         IN  FoldNotReversed(n - 1, [head |-> k,
                                     next |-> st.next @@ (k :> st.head)])

BuildChain_NotReversed(configs) ==
    FoldNotReversed(Len(configs), [head |-> 0, next |-> [x \in {} |-> 0]])

BuildChain_Cyclic(configs) ==
    [head |-> 1,
     next |-> [n \in 1..Len(configs) |-> IF n = Len(configs) THEN 1 ELSE n + 1]]

BuildChain(configs) ==
    FoldPools(Len(configs), [head |-> 0, next |-> [x \in {} |-> 0]])

\* What a plugin of the configuration does at start-up: whether its file can
\* be read (fs::read: "missing" if not) and compiled and instantiated
\* (Component::new, instantiate_async in Manager::create: "bad" if not), and
\* what the call of its valid_config export gives: Ok(Ok(())), Ok(Err(_)) or
\* the wasmtime error of a trap.
PluginFiles ==
    {p \in [file : {"ok", "missing", "bad"}, valid : {"ok", "err", "trap"}] :
        p.file = "ok" \/ p.valid = "ok"}

\* PluginPool::new without the validate_config call
PluginPoolNew_NoValidate(p) == [ok |-> TRUE, validated |-> FALSE]

\* PluginPool::new: the pool is built empty and validate_config leases its
\* first object, which Manager::create compiles and instantiates, and calls
\* valid_config on it; both errors of the call fail the constructor
PluginPoolNew(p) ==
    IF p.file = "bad" THEN [ok |-> FALSE, validated |-> FALSE]
    ELSE [ok |-> p.valid = "ok", validated |-> TRUE]

\* PluginChain::new: the try_fold over the reversed list, after the plugins
\* k.. of the list. It stops at the first error; pools are the plugins
\* whose pool was built, validated the ones whose valid_config was called.
RECURSIVE PluginChainNew(_, _)
PluginChainNew(configs, k) ==
    IF k > Len(configs) THEN [ok |-> TRUE, pools |-> {}, validated |-> {}]
    ELSE LET acc == PluginChainNew(configs, k + 1)
             new == PluginPoolNew(configs[k])
         IN  IF ~acc.ok THEN acc
             ELSE IF configs[k].file = "missing" THEN [acc EXCEPT !.ok = FALSE]
             ELSE [ok |-> new.ok,
                   pools |-> acc.pools \cup (IF new.ok THEN {k} ELSE {}),
                   validated |-> acc.validated \cup
                                 (IF new.validated THEN {k} ELSE {})]


RECURSIVE SeqsUpTo(_, _)
SeqsUpTo(S, n) ==
    IF n = 0 THEN {<<>>}
    ELSE LET shorter == SeqsUpTo(S, n - 1)
         IN  shorter \cup {Append(s, x) : s \in shorter, x \in S}

Chains == SeqsUpTo(Kinds, MaxChain) \ {<<>>}

\* chains without dead pools: every plugin but the last one forwards
Live(c) == \A n \in 1..(Len(c) - 1) : c[n] \in Forwarders
SrvChains == {c \in SeqsUpTo(Kinds, MaxSrvChain) \ {<<>>} : Live(c)}

\* ------------------------------------------------------------------- state
VARIABLES
    chain,        \* the plugin list: the guest program of every pool
    head,         \* PluginChain.plugin
    next_plugin,  \* Manager.next_plugin of every pool (0: None)
    idle,         \* the slots of every deadpool pool, oldest first
    isolates,     \* every (Rubydns, Store<HostHelper>) object: its lease
                  \* state and the fd maps of its UdpHelper and TcpHelper
    srv,          \* Server::serve: position, the request being dispatched
    tasks,        \* the tasks spawned by Server::handle
    responses,    \* the respond calls issued on the udp handle, in order
    lastOp,       \* the last socket host call of the running guest and
                  \* what it returned
    fdHist,       \* per isolate and fd number, what happened to it last:
                  \* never opened, returned by a udp or tcp call, closed
                  \* by the guest, dropped by a reset
    plugin_store_map,  \* Manager.plugin_store_map of every pool: the
                  \* DashMap the HostHelpers of the pool's objects share
    now,          \* Instant::now(), in seconds
    mapGot,       \* the last map_get that returned and what it returned
    boot          \* run: the servers of the configuration and how far
                  \* their construction got

vars == <<chain, head, next_plugin, idle, isolates, srv, tasks, responses,
          lastOp, fdHist, plugin_store_map, now, mapGot, boot>>

mapVars == <<plugin_store_map, now, mapGot>>

chainVars == <<chain, head, next_plugin, boot>>
poolVars == <<idle, isolates, fdHist>>

EmptyMap == [x \in {} |-> "udp"]

\* HostHelper::new: the config text, the next pool and the map of the
\* Manager (0: None; a map is named by the position of its pool), both
\* helpers Default. The store around it starts with wasmtime's default of
\* trapping when the fuel runs out.
NewHostHelper(st, raw_config, next, map) ==
    [st |-> st, udp |-> EmptyMap, tcp |-> EmptyMap, out_of_gas |-> "trap",
     raw_config |-> raw_config, next_plugin |-> next,
     plugin_store_map |-> map]

\* Host for HostHelper, load_config
LoadConfig(hs) == hs.raw_config

\* store.out_of_fuel_async_yield(u64::MAX, 10000): from now on the store
\* injects fuel and yields when the fuel runs out, without end
OutOfFuelAsyncYield(hs) == [hs EXCEPT !.out_of_gas = "inject"]

\* the engine of PluginChain::new: Config::new() with wasm_component_model
\* and async_support; consume_fuel keeps its default, so the compiled guest
\* code counts no fuel
consume_fuel == FALSE

NoOp ==
    [op |-> "none", iso |-> <<0, 0>>, fd |-> 0, arg |-> 0, res |-> 0, ret |-> 0]

\* hres: what handle_dns returned
Unset == [k |-> "unset", msg |-> NoMessage, bytes |-> <<>>]
HOk(m, b) == [k |-> "Ok", msg |-> m, bytes |-> b]
HErr(kind) == [k |-> kind, msg |-> NoMessage, bytes |-> <<>>]
Trap == [k |-> "trap", data |-> <<>>]

NewTask ==
    [pc |-> "new", ident |-> "c1", msg |-> NoMessage, packet |-> <<>>,
     stack |-> <<>>, hres |-> Unset, headRet |-> NoResult, failedAt |-> 0]

\* keys and values of the guests' map calls
Keys == {"k"}
MapValues == {"a", "b"}

\* Option<u64> and Option<Instant>: None is <<>>, Some(x) is <<x>>
Ttls == {<<>>} \cup {<<t>> : t \in 0..MaxTtl}

\* the map host call a guest is suspended in: its key, the entry its lookup
\* found (None: <<>>) and where the guest continues
NoHostCall == [op |-> "none", key |-> "", seen |-> <<>>, back |-> "start"]

NoMapGot == [pool |-> 0, key |-> "", res |-> <<>>, at |-> 0]

Frame(pool, iso, arg) ==
    [pool |-> pool, iso |-> iso, arg |-> arg, gpc |-> "start",
     sent |-> <<>>, got |-> NoResult, out |-> NoResult, host |-> NoHostCall]

\* The state after PluginChain::new succeeded: PluginPool::new ran
\* validate_config on every pool, which created one object and returned it.
\* n is the number of requests the behaviour has room for.
InitFor(configs, n) ==
    /\ chain = configs
    /\ head = BuildChain(configs).head
    /\ next_plugin = BuildChain(configs).next
    /\ idle = [p \in 1..Len(configs) |-> << <<p, 1>> >>]
    /\ isolates = [i \in (1..Len(configs)) \X (1..MaxSize) |->
                      LET new(st) ==
                             NewHostHelper(st, configs[i[1]],
                                           BuildChain(configs).next[i[1]],
                                           i[1])
                      IN  IF i[2] = 1 THEN OutOfFuelAsyncYield(new("idle"))
                          ELSE new("none")]
    /\ fdHist = [i \in (1..Len(configs)) \X (1..MaxSize) |->
                    [fd \in Fds |-> "never"]]
    /\ srv = [pc |-> "accept", accepted |-> 0, errs |-> 0,
              pending |-> [ident |-> "c1", msg |-> NoMessage, packet |-> <<>>]]
    /\ tasks = [r \in 1..n |-> NewTask]
    /\ responses = <<>>
    /\ lastOp = NoOp
    /\ plugin_store_map = [p \in 1..Len(configs) |-> [k \in {} |-> 0]]
    /\ now = 0
    /\ mapGot = NoMapGot

\* run as it is once the server of the chain was spawned
NoBoot ==
    [servers |-> <<>>, pc |-> "serving", server |-> 1, step |-> 1,
     tried |-> {}, chains |-> {}, validated |-> {}, opened |-> {},
     answered |-> {}]

InitChain(configs) == InitFor(configs, MaxReq) /\ boot = NoBoot

Init == \E configs \in SrvChains : InitChain(configs)

\* ------------------------------------------------------ socket host calls
\* HashMap::insert and HashMap::remove
Insert(m, fd, v) == [x \in DOMAIN m \cup {fd} |-> IF x = fd THEN v ELSE m[x]]
Remove(m, fd) == [x \in DOMAIN m \ {fd} |-> m[x]]

\* what a host call hands back: the host state, the error code (0: Ok) and
\* the fd of an Ok(fd)
Out(hs, res, ret) == [hs |-> hs, res |-> res, ret |-> ret]

\* The operating system's part of a call is the parameter os: os.err is the
\* errno of a failing system call (0: success), os.fd the descriptor number
\* of a new socket, os.peer the address family of a peer.

\* UdpHelper::inner_bind
UdpInnerBind(hs, os) ==
    IF os.err # 0 THEN Out(hs, os.err, 0)
    ELSE Out([hs EXCEPT !.udp = Insert(@, os.fd, "udp")], 0, os.fd)

\* UdpHelper::inner_connect, inner_send, inner_recv, inner_send_to: look the
\* fd up in fd_map, then do the system call
UdpInnerUse(hs, fd, os) ==
    IF fd \notin DOMAIN hs.udp THEN Out(hs, EBADF, 0)
    ELSE Out(hs, os.err, 0)

\* UdpHelper::inner_recv_from: as above, then reject an IPv6 source
UdpInnerRecvFrom(hs, fd, os) ==
    IF fd \notin DOMAIN hs.udp THEN Out(hs, EBADF, 0)
    ELSE IF os.err # 0 THEN Out(hs, os.err, 0)
    ELSE IF os.peer = "v6" THEN Out(hs, ENOTSUP, 0)
    ELSE Out(hs, 0, 0)

\* Host for UdpHelper, close: fd_map.remove(&fd)
UdpClose_Keep(hs, fd) == Out(hs, 0, 0)

UdpClose(hs, fd) == Out([hs EXCEPT !.udp = Remove(@, fd)], 0, 0)

\* UdpHelper::inner_send
UdpInnerSend_AnyFd(hs, fd, os) == Out(hs, os.err, 0)

UdpInnerSend(hs, fd, os) == UdpInnerUse(hs, fd, os)

\* TcpHelper::inner_bind
TcpInnerBind(hs, os) ==
    IF os.err # 0 THEN Out(hs, os.err, 0)
    ELSE Out([hs EXCEPT !.tcp = Insert(@, os.fd, "listener")], 0, os.fd)

\* get_ipv4_be taking every address
GetIpv4Be_Any(peer) == 0

\* get_ipv4_be: 0 for an IPv4 address, else the error
GetIpv4Be(peer) == IF peer = "v4" THEN 0 ELSE ENOTSUP

\* TcpHelper::inner_accept: the fd must be a listener; the accepted stream is
\* inserted under its own fd before the peer address is converted
TcpInnerAccept(hs, fd, os) ==
    IF fd \notin DOMAIN hs.tcp THEN Out(hs, EBADF, 0)
    ELSE IF hs.tcp[fd] = "stream" THEN Out(hs, EBADF, 0)
    ELSE IF os.err # 0 THEN Out(hs, os.err, 0)
    ELSE LET hs2 == [hs EXCEPT !.tcp = Insert(@, os.fd, "stream")]
         IN  IF GetIpv4Be(os.peer) # 0 THEN Out(hs2, GetIpv4Be(os.peer), 0)
             ELSE Out(hs2, 0, os.fd)

\* TcpHelper::inner_connect
TcpInnerConnect(hs, os) ==
    IF os.err # 0 THEN Out(hs, os.err, 0)
    ELSE Out([hs EXCEPT !.tcp = Insert(@, os.fd, "stream")], 0, os.fd)

\* TcpHelper::get_tcp_stream: 0 for a stream, else the error
GetTcpStream_AnyKind(hs, fd) ==
    IF fd \notin DOMAIN hs.tcp THEN EBADF ELSE 0

GetTcpStream(hs, fd) ==
    IF fd \notin DOMAIN hs.tcp THEN EBADF
    ELSE IF hs.tcp[fd] = "listener" THEN EBADF
    ELSE 0

\* TcpHelper::inner_write, inner_flush, inner_read
TcpInnerUse(hs, fd, os) ==
    IF GetTcpStream(hs, fd) # 0 THEN Out(hs, GetTcpStream(hs, fd), 0)
    ELSE Out(hs, os.err, 0)

\* Host for TcpHelper, close: fd_map.remove(&fd)
TcpClose(hs, fd) == Out([hs EXCEPT !.tcp = Remove(@, fd)], 0, 0)

\* the history of an isolate's fd numbers after a host call
UdpOpeners == {"udp_bind"}
TcpOpeners == {"tcp_bind", "tcp_accept", "tcp_connect"}

HistAfter(h, op, fd, out) ==
    CASE op \in UdpOpeners /\ out.res = 0 -> [h EXCEPT ![out.ret] = "udp"]
      [] op \in TcpOpeners /\ out.res = 0 -> [h EXCEPT ![out.ret] = "tcp"]
      [] op = "udp_close" /\ h[fd] = "udp" -> [h EXCEPT ![fd] = "closed"]
      [] op = "tcp_close" /\ h[fd] = "tcp" -> [h EXCEPT ![fd] = "closed"]
      [] OTHER -> h

HistAfterReset(h) ==
    [fd \in DOMAIN h |-> IF h[fd] \in {"udp", "tcp"} THEN "reset" ELSE h[fd]]

\* ---------------------------------------------------------- isolate pool
\* UdpHelper::reset and TcpHelper::reset: fd_map.clear()
UdpReset(hs) == [hs EXCEPT !.udp = EmptyMap]
TcpReset(hs) == [hs EXCEPT !.tcp = EmptyMap]

\* HostHelper::reset
HostReset_UdpOnly(hs) == UdpReset(hs)

\* a reset that puts a Default HostHelper in the place of the old one
HostReset_Default(hs) == NewHostHelper(hs.st, "", 0, 0)

HostReset(hs) == TcpReset(UdpReset(hs))

\* Manager::recycle: reset the host state (and re-arm the fuel yield)
Recycle(hs) == OutOfFuelAsyncYield(HostReset(hs))

\* Manager::create: a fresh store around HostHelper::new
Create(p) ==
    OutOfFuelAsyncYield(
        NewHostHelper("leased", chain[p], next_plugin[p], p))

Leased(p) == {i \in DOMAIN isolates : i[1] = p /\ isolates[i].st = "leased"}

Unbuilt(p) == {i \in DOMAIN isolates : i[1] = p /\ isolates[i].st = "none"}

\* PluginPool::get_plugin, i.e. deadpool's Pool::get, handing out object i:
\* take a permit, then pop the oldest slot and recycle it, or with no slot
\* left create a new object.
GetPlugin(p, i) ==
    /\ Cardinality(Leased(p)) < MaxSize
    /\ IF idle[p] # <<>>
       THEN /\ i = Head(idle[p])
            /\ idle' = [idle EXCEPT ![p] = Tail(@)]
            /\ isolates' = [isolates EXCEPT
                              ![i] = [Recycle(@) EXCEPT !.st = "leased"]]
       ELSE /\ i \in Unbuilt(p)
            /\ \A j \in Unbuilt(p) : i[2] <= j[2]
            /\ idle' = idle
            /\ isolates' = [isolates EXCEPT ![i] = Create(p)]
    /\ fdHist' = [fdHist EXCEPT ![i] = HistAfterReset(@)]

\* get_plugin failing: no slot left and Manager::create returned an error
GetPluginFails(p) ==
    /\ Cardinality(Leased(p)) < MaxSize
    /\ idle[p] = <<>>
    /\ UNCHANGED poolVars

\* dropping the lease: deadpool puts the object back into the slots as it is
DropLease_Keep(i) == UNCHANGED <<idle, isolates, fdHist>>

DropLease(i) ==
    /\ idle' = [idle EXCEPT ![i[1]] = Append(@, i)]
    /\ isolates' = [isolates EXCEPT ![i].st = "idle"]
    /\ fdHist' = fdHist

\* ------------------------------------------------------------ server loop
\* Server::serve, the accept half: accept() fails (recv error or a packet
\* that is no DNS message), the error is logged and the loop continues.
AcceptErrorNext_Break(s) == [s EXCEPT !.pc = "stopped", !.errs = @ + 1]

AcceptErrorNext(s) == [s EXCEPT !.errs = @ + 1]

ServeAcceptErr ==
    /\ srv.pc = "accept"
    /\ srv.errs < MaxAcceptErr
    /\ \E c \in Clients : \E b \in InPackets(c) \cup {<<>>} :
          /\ ~parses(b)
          /\ srv' = AcceptErrorNext(srv)
    /\ UNCHANGED <<chainVars, mapVars, poolVars, tasks, responses, lastOp>>

\* UdpHandle::accept returning (source, message, buf)
InFlight ==
    {r \in 1..MaxReq :
        tasks[r].pc \notin {"new", "done", "respond_failed", "cancelled"}}

\* a serve loop that awaits the handling of a request before the next accept
ServeAccept_AwaitHandle ==
    /\ InFlight = {}
    /\ srv.pc = "accept"
    /\ srv.accepted < MaxReq
    /\ Cardinality(InFlight) < MaxInFlight
    /\ \E c \in Clients : \E b \in InPackets(c) :
          /\ parses(b)
          /\ srv' = [srv EXCEPT !.pc = "handle",
                                !.pending = [ident |-> c, msg |-> from_vec(b),
                                             packet |-> b]]
    /\ UNCHANGED <<chainVars, mapVars, poolVars, tasks, responses, lastOp>>

ServeAccept ==
    /\ srv.pc = "accept"
    /\ srv.accepted < MaxReq
    /\ Cardinality(InFlight) < MaxInFlight
    /\ \E c \in Clients : \E b \in InPackets(c) :
          /\ parses(b)
          /\ srv' = [srv EXCEPT !.pc = "handle",
                                !.pending = [ident |-> c, msg |-> from_vec(b),
                                             packet |-> b]]
    /\ UNCHANGED <<chainVars, mapVars, poolVars, tasks, responses, lastOp>>

\* Server::handle: spawn the task of the request, then loop
ServerHandle ==
    /\ srv.pc = "handle"
    /\ LET r == srv.accepted + 1
       IN  tasks' = [tasks EXCEPT ![r] =
                        [NewTask EXCEPT !.pc = "get_plugin",
                                        !.ident = srv.pending.ident,
                                        !.msg = srv.pending.msg,
                                        !.packet = srv.pending.packet]]
    /\ srv' = [srv EXCEPT !.pc = "accept", !.accepted = @ + 1]
    /\ UNCHANGED <<chainVars, mapVars, poolVars, responses, lastOp>>

\* ------------------------------------------------------------ plugin chain
Top(r) == tasks[r].stack[Len(tasks[r].stack)]
SetTop(stack, f) == [stack EXCEPT ![Len(stack)] = f]
Pop(stack) == SubSeq(stack, 1, Len(stack) - 1)

\* handle_dns line 80: get an object of the head pool
HandleDnsGetPlugin(r) ==
    /\ tasks[r].pc = "get_plugin"
    /\ \E i \in DOMAIN isolates :
          /\ GetPlugin(head, i)
          /\ tasks' = [tasks EXCEPT
                ![r].pc = "run",
                ![r].stack = << Frame(head, i, tasks[r].packet) >>]
    /\ UNCHANGED <<chainVars, mapVars, srv, responses, lastOp>>

\* handle_dns line 80 when get_plugin fails: map_err(Error::PluginPool)?
HandleDnsGetPluginFails(r) ==
    /\ tasks[r].pc = "get_plugin"
    /\ GetPluginFails(head)
    /\ tasks' = [tasks EXCEPT ![r].pc = "handle",
                              ![r].hres = HErr("PluginPool"),
                              ![r].failedAt = head]
    /\ UNCHANGED <<chainVars, mapVars, srv, responses, lastOp>>

\* the packet a forwarding guest hands to call_next_plugin
Forwarded(kind, arg) == IF kind = "rewrite" THEN Rewrite(arg) ELSE arg

\* HostHelper::call_next_plugin up to its first await, entered by the guest
\* on top of the stack of task r: with no next_plugin it returns None.
CallNextPluginEnter(f, pkt) ==
    IF next_plugin[f.pool] = 0
    THEN [f EXCEPT !.gpc = "resumed", !.sent = pkt, !.got = NoneResult]
    ELSE [f EXCEPT !.gpc = "calling", !.sent = pkt]

GuestCallNext(r) ==
    /\ tasks[r].pc = "run"
    /\ Top(r).gpc = "start"
    /\ chain[Top(r).pool] \in Forwarders
    /\ tasks' = [tasks EXCEPT ![r].stack =
          SetTop(@, CallNextPluginEnter(Top(r),
                       Forwarded(chain[Top(r).pool], Top(r).arg)))]
    /\ UNCHANGED <<chainVars, mapVars, poolVars, srv, responses, lastOp>>

\* call_next_plugin line 88: the packet call_run is given
CallRunPacket_Request(caller) == caller.arg

CallRunPacket(caller) == caller.sent

\* call_next_plugin lines 81-88: get an object of the next pool and start
\* its run with the packet the caller passed.
CallNextGetPlugin(r) ==
    /\ tasks[r].pc = "run"
    /\ Top(r).gpc = "calling"
    /\ LET p == next_plugin[Top(r).pool]
       IN  \E i \in DOMAIN isolates :
              /\ GetPlugin(p, i)
              /\ tasks' = [tasks EXCEPT ![r].stack =
                    Append(SetTop(@, [Top(r) EXCEPT !.gpc = "waiting"]),
                           Frame(p, i, CallRunPacket(Top(r))))]
    /\ UNCHANGED <<chainVars, mapVars, srv, responses, lastOp>>

\* a call_next_plugin that hands a failure to the guest as a missing next
\* plugin
CallNextPluginError_AsNone(caller) ==
    [caller EXCEPT !.gpc = "resumed", !.got = NoneResult]

\* call_next_plugin lines 84 and 88, the `?`: the error of get_plugin or of
\* call_run is the error of the host call, and with it of the caller's run
CallNextPluginError(caller) == [caller EXCEPT !.gpc = "trapped", !.out = Trap]

\* call_next_plugin lines 81-84 when get_plugin fails: the `?` makes it a
\* host error of the caller's run.
CallNextGetPluginFails(r) ==
    /\ tasks[r].pc = "run"
    /\ Top(r).gpc = "calling"
    /\ GetPluginFails(next_plugin[Top(r).pool])
    /\ tasks' = [tasks EXCEPT
          ![r].stack = SetTop(@, CallNextPluginError(Top(r))),
          ![r].failedAt = next_plugin[Top(r).pool]]
    /\ UNCHANGED <<chainVars, mapVars, srv, responses, lastOp>>

\* what the guest's run returns
GuestResult(kind, f) ==
    CASE kind = "answer" -> Answer(f.arg)
      [] kind = "fail" -> PluginError
      [] kind = "garbage" -> Ok(Garbage)
      [] kind = "empty" -> Empty(f.arg)
      [] OTHER -> AfterNext(f.got)

\* the guest's run returns to the host
GuestReturn(r) ==
    /\ tasks[r].pc = "run"
    /\ \/ /\ Top(r).gpc = "start"
          /\ chain[Top(r).pool] \in {"answer", "fail", "garbage", "empty"}
       \/ Top(r).gpc = "resumed"
    /\ tasks' = [tasks EXCEPT ![r].stack =
          SetTop(@, [Top(r) EXCEPT !.gpc = "returned",
                                   !.out = GuestResult(chain[Top(r).pool], Top(r))])]
    /\ lastOp' = NoOp
    /\ UNCHANGED <<chainVars, mapVars, poolVars, srv, responses>>

\* the guest traps: call_run returns a wasmtime error
GuestTrap(r) ==
    /\ tasks[r].pc = "run"
    /\ Top(r).gpc = "start"
    /\ chain[Top(r).pool] = "trap"
    /\ tasks' = [tasks EXCEPT ![r].stack =
          SetTop(@, [Top(r) EXCEPT !.gpc = "trapped", !.out = Trap])]
    /\ lastOp' = NoOp
    /\ UNCHANGED <<chainVars, mapVars, poolVars, srv, responses>>

\* call_next_plugin lines 88-90: the value handed back to the calling guest
CallNextPluginResult_HideError(callee) ==
    IF callee.out.k = "perr" THEN Ok(callee.arg) ELSE callee.out

CallNextPluginResult(callee) == callee.out

\* call_next_plugin returns: the lease on the next pool's object is dropped;
\* Ok(Some(result)) resumes the caller, an error of call_run (line 88 `?`)
\* is a host error that traps the caller.
CallNextReturn(r) ==
    /\ tasks[r].pc = "run"
    /\ Len(tasks[r].stack) >= 2
    /\ Top(r).gpc \in {"returned", "trapped"}
    /\ LET callee == Top(r)
           rest == Pop(tasks[r].stack)
           caller == rest[Len(rest)]
       IN  /\ DropLease(callee.iso)
           /\ tasks' = [tasks EXCEPT
                 ![r].stack = SetTop(rest,
                    IF callee.gpc = "returned"
                    THEN [caller EXCEPT !.gpc = "resumed",
                                        !.got = CallNextPluginResult(callee)]
                    ELSE CallNextPluginError(caller))]
    /\ UNCHANGED <<chainVars, mapVars, srv, responses, lastOp>>

\* handle_dns lines 83-116 after the head plugin's call_run came back
HandleDnsResult_NeverErr(dns_message, result) ==
    IF result.k = "ok" /\ parses(result.data)
    THEN HOk(from_vec(result.data), result.data)
    ELSE HOk(ServFailMut(dns_message), to_vec(ServFailMut(dns_message)))

HandleDnsResult(dns_message, result) ==
    CASE result.k = "trap" -> HErr("PluginRun")
      [] result.k = "perr" ->
            HOk(ServFailMut(dns_message), to_vec(ServFailMut(dns_message)))
      [] OTHER ->
            IF parses(result.data)
            THEN HOk(from_vec(result.data), result.data)
            ELSE HErr("Proto")

HandleDnsReturn(r) ==
    /\ tasks[r].pc = "run"
    /\ Len(tasks[r].stack) = 1
    /\ Top(r).gpc \in {"returned", "trapped"}
    /\ DropLease(Top(r).iso)
    /\ tasks' = [tasks EXCEPT
          ![r].pc = "handle",
          ![r].stack = <<>>,
          ![r].headRet = Top(r).out,
          ![r].hres = HandleDnsResult(tasks[r].msg, Top(r).out)]
    /\ UNCHANGED <<chainVars, mapVars, srv, responses, lastOp>>

\* ServerInner::handle lines 77-91: the response bytes
ServerResponse_Unmarked(dns_message, hres) ==
    IF hres.k = "Ok" THEN hres.bytes ELSE to_vec(dns_message)

ServerResponse(dns_message, hres) ==
    IF hres.k = "Ok" THEN hres.bytes ELSE to_vec(ServFailMut(dns_message))

\* ServerInner::handle lines 93-96: the respond call
Respond(log, r, identify, response) ==
    Append(log, [req |-> r, ident |-> identify, payload |-> response])

\* ServerInner::handle after handle_dns: build the response and respond;
\* the send may fail, which ends the task with an error.
ServerInnerHandle(r) ==
    /\ tasks[r].pc = "handle"
    /\ responses' = Respond(responses, r, tasks[r].ident,
                            ServerResponse(tasks[r].msg, tasks[r].hres))
    /\ \E res \in {"done", "respond_failed"} :
          tasks' = [tasks EXCEPT ![r].pc = res]
    /\ UNCHANGED <<chainVars, mapVars, poolVars, srv, lastOp>>

\* The slots of the pools after the leases held by the frames of a stack
\* were dropped.  The future of a run owns the futures of the host calls it
\* is suspended in, so the lease of the innermost call_next_plugin is
\* dropped first and the one of handle_dns last.
DropLeases_HeadOnly(idl, stack) ==
    IF stack = <<>> THEN idl
    ELSE [idl EXCEPT ![stack[1].pool] = Append(@, stack[1].iso)]

RECURSIVE DropLeases(_, _)
DropLeases(idl, stack) ==
    IF stack = <<>> THEN idl
    ELSE LET f == stack[Len(stack)]
         IN  DropLeases([idl EXCEPT ![f.pool] = Append(@, f.iso)], Pop(stack))

IsosOf(stack) == {stack[n].iso : n \in 1..Len(stack)}

\* The runtime drops the task of a request at one of its awaits (get_plugin,
\* call_run, respond): the future of ServerInner::handle is dropped and with
\* it every lease it holds.
Cancel(r) ==
    /\ tasks[r].pc \in {"get_plugin", "run", "handle"}
    /\ Cardinality({q \in 1..MaxReq : tasks[q].pc = "cancelled"}) < MaxCancel
    /\ idle' = DropLeases(idle, tasks[r].stack)
    /\ isolates' = [i \in DOMAIN isolates |->
                       IF i \in IsosOf(tasks[r].stack)
                       THEN [isolates[i] EXCEPT !.st = "idle"]
                       ELSE isolates[i]]
    /\ tasks' = [tasks EXCEPT ![r].pc = "cancelled", ![r].stack = <<>>]
    /\ UNCHANGED <<chainVars, mapVars, fdHist, srv, responses, lastOp>>

\* one step of a request task that never finds a pool exhausted
TaskStep(r) ==
    \/ HandleDnsGetPlugin(r)
    \/ GuestCallNext(r)
    \/ CallNextGetPlugin(r)
    \/ GuestReturn(r)
    \/ GuestTrap(r)
    \/ CallNextReturn(r)
    \/ HandleDnsReturn(r)
    \/ ServerInnerHandle(r)

\* The server under concurrent load.
Next ==
    \/ ServeAcceptErr
    \/ ServeAccept
    \/ ServerHandle
    \/ \E r \in 1..MaxReq :
          \/ TaskStep(r)
          \/ HandleDnsGetPluginFails(r)
          \/ CallNextGetPluginFails(r)

Spec == Init /\ [][Next]_vars

\* The server under concurrent load with a runtime that drops request tasks.
NextCancel ==
    \/ Next
    \/ \E r \in 1..MaxReq : Cancel(r)

SpecCancel == Init /\ [][NextCancel]_vars

\* The server with more requests in flight than a pool has objects: a
\* get_plugin then waits for a permit of the pool's semaphore.  The tokio
\* scheduler polls every task that can make progress and the semaphore
\* serves its waiters in order, and a guest's run is taken to end: every
\* request task that can take a step eventually takes one.
LiveReqs == 1..MaxLive

LiveChains ==
    {<<"identity", "answer">>, <<"identity", "identity">>,
     <<"rewrite", "trap">>}

ServeAcceptLive ==
    /\ srv.pc = "accept"
    /\ srv.accepted < MaxLive
    /\ \E b \in InPackets("c1") :
          /\ parses(b)
          /\ srv' = [srv EXCEPT !.pc = "handle",
                                !.pending = [ident |-> "c1", msg |-> from_vec(b),
                                             packet |-> b]]
    /\ UNCHANGED <<chainVars, mapVars, poolVars, tasks, responses, lastOp>>

InitLive ==
    \E configs \in LiveChains : InitFor(configs, MaxLive) /\ boot = NoBoot

NextLive ==
    \/ ServeAcceptLive
    \/ ServerHandle
    \/ \E r \in LiveReqs : TaskStep(r)

SpecLive ==
    /\ InitLive
    /\ [][NextLive]_vars
    /\ \A r \in LiveReqs : WF_vars(TaskStep(r))

\* The chain under a client that sends its next query after the previous
\* one was answered: every chain up to MaxChain plugins.  No pool is ever
\* found without an idle object, so no get_plugin fails.
ServeAcceptSeq == InFlight = {} /\ ServeAccept

NextChain ==
    \/ ServeAcceptErr
    \/ ServeAcceptSeq
    \/ ServerHandle
    \/ \E r \in 1..MaxReq : TaskStep(r)

InitAllChains == \E configs \in Chains : InitChain(configs)

SpecChain == InitAllChains /\ [][NextChain]_vars

\* --------------------------------------------- the guest's socket host calls
\* a kernel that hands out the number of an open descriptor
FreeFds_Any == Fds

\* fd numbers no socket of the process has
FreeFds ==
    Fds \ UNION {DOMAIN isolates[i].udp \cup DOMAIN isolates[i].tcp :
                    i \in DOMAIN isolates}

\* The sockets of the helpers are bound to IPv4 addresses only (inner_bind
\* builds IpAddr::V4), so the kernel reports IPv4 peers.
PeerFamilies == {"v4"}

\* outcomes of a system call that makes a socket: an errno (EMFILE when the
\* process is out of descriptors) or a descriptor no open socket has
OsOpen ==
    {[err |-> e, fd |-> 0, peer |-> "v4"] : e \in {ECONNREFUSED}}
      \cup {[err |-> 0, fd |-> fd, peer |-> pf] : fd \in FreeFds, pf \in PeerFamilies}

\* outcomes of a system call on an open socket
OsUse ==
    {[err |-> e, fd |-> 0, peer |-> pf] : e \in {0, ECONNREFUSED}, pf \in PeerFamilies}

\* the guest on top of task r's stack is executing guest code
GuestRunning(r) ==
    /\ tasks[r].pc = "run"
    /\ Top(r).gpc \in {"start", "resumed"}

\* the store call_run was given: the one of the innermost run of task r
RunningIso_Head(r) == tasks[r].stack[1].iso

RunningIso(r) == Top(r).iso

\* the guest of task r made host call op on fd and got out
\* (size is the buffer size of a recv, recv_from or read)
HostCallSized(r, op, fd, size, out) ==
    LET i == RunningIso(r)
    IN  /\ isolates' = [isolates EXCEPT ![i] = out.hs]
        /\ fdHist' = [fdHist EXCEPT ![i] = HistAfter(@, op, fd, out)]
        /\ lastOp' = [op |-> op, iso |-> i, fd |-> fd, arg |-> size,
                      res |-> out.res, ret |-> out.ret]
        /\ UNCHANGED <<chainVars, mapVars, idle, srv, tasks, responses>>

HostCall(r, op, fd, out) == HostCallSized(r, op, fd, 0, out)

Host(r) == isolates[RunningIso(r)]

GuestUdpBind(r) ==
    /\ GuestRunning(r)
    /\ \E os \in OsOpen : HostCall(r, "udp_bind", 0, UdpInnerBind(Host(r), os))

GuestUdpConnect(r) ==
    /\ GuestRunning(r)
    /\ \E fd \in Fds, os \in OsUse :
          HostCall(r, "udp_connect", fd, UdpInnerUse(Host(r), fd, os))

GuestUdpSend(r) ==
    /\ GuestRunning(r)
    /\ \E fd \in Fds, os \in OsUse :
          HostCall(r, "udp_send", fd, UdpInnerSend(Host(r), fd, os))

GuestUdpRecv(r) ==
    /\ GuestRunning(r)
    /\ \E fd \in Fds, os \in OsUse :
          HostCall(r, "udp_recv", fd, UdpInnerUse(Host(r), fd, os))

GuestUdpSendTo(r) ==
    /\ GuestRunning(r)
    /\ \E fd \in Fds, os \in OsUse :
          HostCall(r, "udp_send_to", fd, UdpInnerUse(Host(r), fd, os))

GuestUdpRecvFrom(r) ==
    /\ GuestRunning(r)
    /\ \E fd \in Fds, os \in OsUse :
          HostCall(r, "udp_recv_from", fd, UdpInnerRecvFrom(Host(r), fd, os))

GuestUdpClose(r) ==
    /\ GuestRunning(r)
    /\ \E fd \in Fds : HostCall(r, "udp_close", fd, UdpClose(Host(r), fd))

GuestTcpBind(r) ==
    /\ GuestRunning(r)
    /\ \E os \in OsOpen : HostCall(r, "tcp_bind", 0, TcpInnerBind(Host(r), os))

GuestTcpAccept(r) ==
    /\ GuestRunning(r)
    /\ \E fd \in Fds, os \in OsOpen :
          HostCall(r, "tcp_accept", fd, TcpInnerAccept(Host(r), fd, os))

GuestTcpConnect(r) ==
    /\ GuestRunning(r)
    /\ \E os \in OsOpen :
          HostCall(r, "tcp_connect", 0, TcpInnerConnect(Host(r), os))

GuestTcpWrite(r) ==
    /\ GuestRunning(r)
    /\ \E fd \in Fds, os \in OsUse :
          HostCall(r, "tcp_write", fd, TcpInnerUse(Host(r), fd, os))

GuestTcpFlush(r) ==
    /\ GuestRunning(r)
    /\ \E fd \in Fds, os \in OsUse :
          HostCall(r, "tcp_flush", fd, TcpInnerUse(Host(r), fd, os))

GuestTcpRead(r) ==
    /\ GuestRunning(r)
    /\ \E fd \in Fds, os \in OsUse :
          HostCall(r, "tcp_read", fd, TcpInnerUse(Host(r), fd, os))

GuestTcpClose(r) ==
    /\ GuestRunning(r)
    /\ \E fd \in Fds : HostCall(r, "tcp_close", fd, TcpClose(Host(r), fd))

\* ------------------------------------------------ the guest's map host calls
\* StoreValue, with the arguments of the map_set that wrote it
StoreValue(data, timeout, ttl, at) ==
    [data |-> data, timeout |-> timeout, ttl |-> ttl, at |-> at]

\* map_set line 103: timeout.map(|timeout| Instant::now() + timeout)
SetTimeout(timeout, t) == IF timeout = <<>> THEN <<>> ELSE <<t + timeout[1]>>

\* what DashMap::insert returns, the entry it replaced, reduced to whether
\* there was one with a timeout
Replaced(m, key) ==
    IF key \in DOMAIN m /\ m[key].timeout # <<>> THEN "timed" ELSE "other"

\* a map_set that leaves the timeout of an entry it finds as it is
MapSet_KeepTimeout(m, key, value, timeout, t) ==
    Insert(m, key,
           StoreValue(value,
                      IF key \in DOMAIN m THEN m[key].timeout
                      ELSE SetTimeout(timeout, t),
                      timeout, t)
              @@ [replaced |-> Replaced(m, key)])

\* HostHelper::map_set: DashMap::insert
MapSet(m, key, value, timeout, t) ==
    Insert(m, key,
           StoreValue(value, SetTimeout(timeout, t), timeout, t)
              @@ [replaced |-> Replaced(m, key)])

\* map_get lines 114-115: the entry has a timeout and
\* Instant::now().checked_duration_since(timeout) is Some
Expired(value, t) == value.timeout # <<>> /\ t >= value.timeout[1]

\* the map of the HostHelper of the guest running in frame f
MapOf(f) == f.pool

\* the requests that hold a read guard of the entry of key in map p: their
\* map_get found the entry and has not returned (`value`, the Ref of line
\* 113, lives to the end of the match arm)
ReadGuards(p, key) ==
    {r \in DOMAIN tasks :
        \E n \in 1..Len(tasks[r].stack) :
           LET f == tasks[r].stack[n]
           IN  /\ f.gpc \in {"map_get", "map_remove_wait"}
               /\ MapOf(f) = p
               /\ f.host.key = key
               /\ f.host.seen # <<>>}

\* DashMap::insert and DashMap::remove take the write lock of the key's
\* shard, which waits for every read guard
WriteBlocked_Never(p, key) == FALSE

WriteBlocked(p, key) == ReadGuards(p, key) # {}

GuestMapSet(r) ==
    /\ GuestRunning(r)
    /\ \E key \in Keys, value \in MapValues, timeout \in Ttls :
          /\ ~WriteBlocked(MapOf(Top(r)), key)
          /\ plugin_store_map' =
                [plugin_store_map EXCEPT ![MapOf(Top(r))] =
                    MapSet(@, key, value, timeout, now)]
    /\ mapGot' = NoMapGot
    /\ UNCHANGED <<chainVars, poolVars, srv, tasks, responses, lastOp, now>>

\* map_get line 111: DashMap::get
GuestMapGet(r) ==
    /\ GuestRunning(r)
    /\ \E key \in Keys :
          LET m == plugin_store_map[MapOf(Top(r))]
          IN  tasks' = [tasks EXCEPT ![r].stack =
                 SetTop(@, [Top(r) EXCEPT
                    !.gpc = "map_get",
                    !.host = [op |-> "map_get", key |-> key,
                              seen |-> IF key \in DOMAIN m THEN <<m[key]>>
                                       ELSE <<>>,
                              back |-> Top(r).gpc]])]
    /\ UNCHANGED <<chainVars, mapVars, poolVars, srv, responses, lastOp>>

\* map_get lines 112 and 122: None, or the data of an entry without a
\* timeout or with a timeout that is still ahead
MapGetResult(seen) == IF seen = <<>> THEN <<>> ELSE <<seen[1].data>>

MapGetReturn(r) ==
    /\ tasks[r].pc = "run"
    /\ Top(r).gpc = "map_get"
    /\ Top(r).host.seen # <<>> => ~Expired(Top(r).host.seen[1], now)
    /\ mapGot' = [pool |-> MapOf(Top(r)), key |-> Top(r).host.key,
                  res |-> MapGetResult(Top(r).host.seen), at |-> now]
    /\ tasks' = [tasks EXCEPT ![r].stack =
          SetTop(@, [Top(r) EXCEPT !.gpc = Top(r).host.back,
                                   !.host = NoHostCall])]
    /\ UNCHANGED <<chainVars, poolVars, srv, responses, lastOp,
                   plugin_store_map, now>>

\* map_get lines 115-116: the timeout has passed and map_get calls
\* DashMap::remove, which waits for the write lock of the shard while
\* `value` still holds its read guard
MapGetEvict(r) ==
    /\ tasks[r].pc = "run"
    /\ Top(r).gpc = "map_get"
    /\ Top(r).host.seen # <<>>
    /\ Expired(Top(r).host.seen[1], now)
    /\ tasks' = [tasks EXCEPT ![r].stack =
          SetTop(@, [Top(r) EXCEPT !.gpc = "map_remove_wait"])]
    /\ UNCHANGED <<chainVars, mapVars, poolVars, srv, responses, lastOp>>

\* HostHelper::map_remove: DashMap::remove
GuestMapRemove(r) ==
    /\ GuestRunning(r)
    /\ \E key \in Keys :
          /\ ~WriteBlocked(MapOf(Top(r)), key)
          /\ plugin_store_map' =
                [plugin_store_map EXCEPT ![MapOf(Top(r))] = Remove(@, key)]
    /\ mapGot' = NoMapGot
    /\ UNCHANGED <<chainVars, poolVars, srv, tasks, responses, lastOp, now>>

\* a second passes
Tick ==
    /\ now < MaxTime
    /\ now' = now + 1
    /\ UNCHANGED <<chainVars, poolVars, srv, tasks, responses, lastOp,
                   plugin_store_map, mapGot>>

\* The chain of two plugins under a client that sends one query after the
\* other, with guests that use the map.
MapChains == {<<"identity", "answer">>}

InitMap == \E configs \in MapChains : InitChain(configs)

NextMap ==
    \/ ServeAcceptSeq
    \/ ServerHandle
    \/ Tick
    \/ \E r \in 1..MaxReq :
          \/ HandleDnsGetPlugin(r)
          \/ GuestCallNext(r)
          \/ CallNextGetPlugin(r)
          \/ GuestReturn(r)
          \/ CallNextReturn(r)
          \/ HandleDnsReturn(r)
          \/ ServerInnerHandle(r)
          \/ GuestMapSet(r)
          \/ GuestMapGet(r)
          \/ MapGetReturn(r)
          \/ MapGetEvict(r)
          \/ GuestMapRemove(r)

SpecMap == InitMap /\ [][NextMap]_vars

\* The server under concurrent load with guests that use the map.
MapShareChains == {<<"answer">>}

InitMapShare == \E configs \in MapShareChains : InitChain(configs)

NextMapShare ==
    \/ ServeAccept
    \/ ServerHandle
    \/ Tick
    \/ \E r \in 1..MaxReq :
          \/ HandleDnsGetPlugin(r)
          \/ GuestReturn(r)
          \/ HandleDnsReturn(r)
          \/ ServerInnerHandle(r)
          \/ GuestMapSet(r)
          \/ GuestMapGet(r)
          \/ MapGetReturn(r)
          \/ MapGetEvict(r)
          \/ GuestMapRemove(r)

SpecMapShare == InitMapShare /\ [][NextMapShare]_vars

\* The chain under a client that sends one query after the other, with
\* guests that make socket host calls while they run.
FdChains == {<<"answer">>}

InitFd == \E configs \in FdChains : InitChain(configs)

NextFd ==
    \/ ServeAcceptSeq
    \/ ServerHandle
    \/ \E r \in 1..MaxReq :
          \/ HandleDnsGetPlugin(r)
          \/ GuestReturn(r)
          \/ HandleDnsReturn(r)
          \/ ServerInnerHandle(r)
          \/ GuestUdpBind(r)
          \/ GuestUdpConnect(r)
          \/ GuestUdpSend(r)
          \/ GuestUdpRecv(r)
          \/ GuestUdpSendTo(r)
          \/ GuestUdpRecvFrom(r)
          \/ GuestUdpClose(r)
          \/ GuestTcpBind(r)
          \/ GuestTcpAccept(r)
          \/ GuestTcpConnect(r)
          \/ GuestTcpWrite(r)
          \/ GuestTcpFlush(r)
          \/ GuestTcpRead(r)
          \/ GuestTcpClose(r)

SpecFd == InitFd /\ [][NextFd]_vars

\* ------------------------------------------------- the receive buffers
\* the bytes the peers send
Bytes == {1, 2}

\* a byte of the buffer that was never written
Uninit == 0

\* inner_recv, inner_recv_from, inner_read without the second set_len
ReadBuf_NoTruncate(buf_size, data) ==
    [k \in 1..buf_size |-> IF k <= Len(data) THEN data[k] ELSE Uninit]

\* inner_recv, inner_recv_from, inner_read: a buffer of buf_size bytes that
\* are not initialized, into which the system call writes the n bytes it
\* delivers of data, as many as fit; set_len(n) cuts the buffer to them
ReadBuf(buf_size, data) ==
    LET n == IF Len(data) < buf_size THEN Len(data) ELSE buf_size
        buf == [k \in 1..buf_size |-> IF k <= n THEN data[k] ELSE Uninit]
    IN  SubSeq(buf, 1, n)

\* the three calls: the fd lookup and the system call as for the other
\* calls on the fd, and with Ok the buffer
InnerRead(op, hs, fd, buf_size, os, data) ==
    LET base == CASE op = "udp_recv" -> UdpInnerUse(hs, fd, os)
                  [] op = "udp_recv_from" -> UdpInnerRecvFrom(hs, fd, os)
                  [] op = "tcp_read" -> TcpInnerUse(hs, fd, os)
    IN  IF base.res # 0 THEN base
        ELSE Out(base.hs, 0, ReadBuf(buf_size, data))

\* the guest calls recv, recv_from or read with a buffer size
GuestRead(r) ==
    /\ GuestRunning(r)
    /\ \E op \in {"udp_recv", "udp_recv_from", "tcp_read"}, fd \in Fds,
          size \in 0..MaxLen, os \in OsUse, data \in SeqsUpTo(Bytes, MaxLen) :
          HostCallSized(r, op, fd, size,
                        InnerRead(op, Host(r), fd, size, os, data))

\* One answering plugin under a client that sends one query after the
\* other, with a guest that opens sockets and receives on them.
NextRead ==
    \/ ServeAcceptSeq
    \/ ServerHandle
    \/ \E r \in 1..MaxReq :
          \/ HandleDnsGetPlugin(r)
          \/ GuestReturn(r)
          \/ HandleDnsReturn(r)
          \/ ServerInnerHandle(r)
          \/ GuestUdpBind(r)
          \/ GuestTcpConnect(r)
          \/ GuestRead(r)

SpecRead == InitFd /\ [][NextRead]_vars

\* ----------------------------------------------------- the Addr of a call
\* octets and ports of the socket addresses of the peers
Octets == {1, 2}
Ports == {53, 258}

SocketAddrs == [ip : [1..4 -> Octets], port : Ports]

\* u32::from_be_bytes, and the octets of Ipv4Addr::from(u32)
FromBeBytes(o) == ((o[1] * 256 + o[2]) * 256 + o[3]) * 256 + o[4]

ToBeBytes(x) ==
    <<x \div 16777216, (x \div 65536) % 256, (x \div 256) % 256, x % 256>>

\* u32::to_be and u32::from_be, u16::to_be and u16::from_be where the
\* target is little-endian, as wasm32 is and the hosts x86_64 and aarch64
\* are: swap_bytes
U32SwapBytes(x) ==
    LET o == ToBeBytes(x) IN FromBeBytes(<<o[4], o[3], o[2], o[1]>>)

U16SwapBytes(x) == (x % 256) * 256 + x \div 256

\* get_ipv4_be of the host (tcp.rs) and of the guest (plugin-utils)
Ipv4Be(ip) == U32SwapBytes(FromBeBytes(ip))

\* inner_recv_from, the Addr of the source
UdpRecvFromAddr(source) ==
    [addr |-> FromBeBytes(source.ip), port |-> U16SwapBytes(source.port)]

\* inner_accept, the Addr of the peer
TcpAcceptAddr(peer) ==
    [addr |-> Ipv4Be(peer.ip), port |-> U16SwapBytes(peer.port)]

\* the guest's wrappers, bind, connect, send_to: the Addr of a SocketAddr
EncodeAddr(sa) == [addr |-> Ipv4Be(sa.ip), port |-> U16SwapBytes(sa.port)]

\* the host's inner_bind, inner_connect, inner_send_to and the guest's
\* recv_from and accept: the SocketAddr of an Addr
DecodeAddr(a) ==
    [ip |-> [k \in 1..4 |-> ToBeBytes(U32SwapBytes(a.addr))[k]],
     port |-> U16SwapBytes(a.port)]

\* UdpSocket::recv_from of the guest: the host call, then the decoding of
\* the Addr it returned; source is the address the datagram came from
GuestRecvFrom(r) ==
    /\ GuestRunning(r)
    /\ \E fd \in Fds, os \in OsUse, source \in SocketAddrs :
          LET base == UdpInnerRecvFrom(Host(r), fd, os)
              addr == UdpRecvFromAddr(source)
          IN  HostCall(r, "udp_recv_from", fd,
                       IF base.res # 0 THEN base
                       ELSE Out(base.hs, 0,
                                [source |-> source, addr |-> addr,
                                 decoded |-> DecodeAddr(addr)]))

\* One answering plugin under a client that sends one query after the
\* other, with a guest that binds udp sockets and receives on them.
NextAddr ==
    \/ ServeAcceptSeq
    \/ ServerHandle
    \/ \E r \in 1..MaxReq :
          \/ HandleDnsGetPlugin(r)
          \/ GuestReturn(r)
          \/ HandleDnsReturn(r)
          \/ ServerInnerHandle(r)
          \/ GuestUdpBind(r)
          \/ GuestRecvFrom(r)

SpecAddr == InitFd /\ [][NextAddr]_vars

\* The chain of two plugins under a client that sends one query after the
\* other, with guests that open and close sockets before and after the call
\* of the next plugin.
StackChains == {<<"identity", "answer">>}

InitStack == \E configs \in StackChains : InitChain(configs)

NextStack ==
    \/ ServeAcceptSeq
    \/ ServerHandle
    \/ \E r \in 1..MaxReq :
          \/ HandleDnsGetPlugin(r)
          \/ GuestCallNext(r)
          \/ CallNextGetPlugin(r)
          \/ GuestReturn(r)
          \/ CallNextReturn(r)
          \/ HandleDnsReturn(r)
          \/ ServerInnerHandle(r)
          \/ GuestUdpBind(r)
          \/ GuestUdpClose(r)
          \/ GuestTcpBind(r)
          \/ GuestTcpClose(r)

SpecStack == InitStack /\ [][NextStack]_vars

\* The server under concurrent load with guests that open and use sockets.
NextShare ==
    \/ ServeAccept
    \/ ServerHandle
    \/ \E r \in 1..MaxReq :
          \/ HandleDnsGetPlugin(r)
          \/ GuestReturn(r)
          \/ HandleDnsReturn(r)
          \/ ServerInnerHandle(r)
          \/ GuestUdpBind(r)
          \/ GuestUdpSend(r)
          \/ GuestTcpConnect(r)
          \/ GuestTcpWrite(r)

SpecShare == InitFd /\ [][NextShare]_vars

\* ------------------------------------------------------- the cache plugin
\* The guest program of plugin/cache: chains may name it "cache".
\* CacheKey: the serialized questions of the request
CacheKey(b) == from_vec(b).q

\* a cache that stores every response that decodes
MinTtl_Always(m) == <<MaxTtl>>

\* the smallest ttl of the answers of a response, None without answers; the
\* records of the answering guest carry the ttl MaxTtl
MinTtl(m) == IF m.an > 0 THEN <<MaxTtl>> ELSE <<>>

\* create_response_from_cache returning the stored packet
CreateResponseFromCache_Stored(dns_packet, response_packet) ==
    Ok(response_packet)

\* create_response_from_cache: the request with the header turned into a
\* response that takes response code and answers of the stored response
CreateResponseFromCache(dns_packet, response_packet) ==
    IF ~parses(dns_packet) \/ ~parses(response_packet) THEN PluginError
    ELSE Ok(to_vec([from_vec(dns_packet) EXCEPT
                       !.qr = 1,
                       !.rcode = from_vec(response_packet).rcode,
                       !.an = from_vec(response_packet).an]))

\* run lines 17-44: decode the request, build the key and call map_get,
\* whose DashMap::get (map_get line 111) looks the key up
CacheRun(r) ==
    /\ tasks[r].pc = "run"
    /\ Top(r).gpc = "start"
    /\ chain[Top(r).pool] = "cache"
    /\ LET f == Top(r)
           m == plugin_store_map[MapOf(f)]
           key == CacheKey(f.arg)
       IN  tasks' = [tasks EXCEPT ![r].stack =
              SetTop(@,
                 IF ~parses(f.arg)
                 THEN [f EXCEPT !.gpc = "returned", !.out = PluginError]
                 ELSE [f EXCEPT
                          !.gpc = "map_get",
                          !.host = [op |-> "map_get", key |-> key,
                                    seen |-> IF key \in DOMAIN m
                                             THEN <<m[key]>> ELSE <<>>,
                                    back |-> "cache"]])]
    /\ UNCHANGED <<chainVars, mapVars, poolVars, srv, responses, lastOp>>

\* map_get returns (lines 112 and 122) and run lines 44-47 go on: with None
\* call_next_and_set_cache calls call_next_plugin with the request, with
\* Some the run returns create_response_from_cache
CacheMapGot(r) ==
    /\ tasks[r].pc = "run"
    /\ Top(r).gpc = "map_get"
    /\ Top(r).host.back = "cache"
    /\ Top(r).host.seen # <<>> => ~Expired(Top(r).host.seen[1], now)
    /\ LET f == [Top(r) EXCEPT !.host = NoHostCall]
           res == MapGetResult(Top(r).host.seen)
       IN  /\ mapGot' = [pool |-> MapOf(f), key |-> Top(r).host.key,
                         res |-> res, at |-> now]
           /\ tasks' = [tasks EXCEPT ![r].stack =
                 SetTop(@,
                    IF res = <<>> THEN CallNextPluginEnter(f, f.arg)
                    ELSE [f EXCEPT
                             !.gpc = "returned",
                             !.out = CreateResponseFromCache(f.arg, res[1])])]
    /\ UNCHANGED <<chainVars, poolVars, srv, responses, lastOp,
                   plugin_store_map, now>>

\* call_next_and_set_cache lines 56-80 after call_next_plugin came back:
\* None and errors end the run with an error; a response that decodes is
\* stored under the key with the smallest ttl of its answers, if it has
\* answers, and returned
CacheSet(r) ==
    /\ tasks[r].pc = "run"
    /\ Top(r).gpc = "resumed"
    /\ chain[Top(r).pool] = "cache"
    /\ LET f == Top(r)
           key == CacheKey(f.arg)
           good == f.got.k = "ok" /\ parses(f.got.data)
           ttl == IF good THEN MinTtl(from_vec(f.got.data)) ELSE <<>>
       IN  /\ ttl # <<>> => ~WriteBlocked(MapOf(f), key)
           /\ plugin_store_map' =
                 IF ttl = <<>> THEN plugin_store_map
                 ELSE [plugin_store_map EXCEPT ![MapOf(f)] =
                          MapSet(@, key, f.got.data, ttl, now)]
           /\ mapGot' = IF ttl = <<>> THEN mapGot ELSE NoMapGot
           /\ tasks' = [tasks EXCEPT ![r].stack =
                 SetTop(@, [f EXCEPT
                    !.gpc = "returned",
                    !.out = IF good THEN f.got ELSE PluginError])]
    /\ UNCHANGED <<chainVars, poolVars, srv, responses, lastOp, now>>

\* The cache in front of an answering plugin, under a client that sends one
\* query after the other.
InitCache == InitChain(<<"cache", "answer">>)

NextCache ==
    \/ ServeAcceptSeq
    \/ ServerHandle
    \/ Tick
    \/ \E r \in 1..MaxReq :
          \/ HandleDnsGetPlugin(r)
          \/ CacheRun(r)
          \/ CacheMapGot(r)
          \/ MapGetEvict(r)
          \/ CallNextGetPlugin(r)
          \/ GuestReturn(r) /\ chain[Top(r).pool] # "cache"
          \/ CallNextReturn(r)
          \/ CacheSet(r)
          \/ HandleDnsReturn(r)
          \/ ServerInnerHandle(r)

SpecCache == InitCache /\ [][NextCache]_vars

\* The cache as the only plugin and in front of every kind of last plugin.
CacheChains ==
    {<<"cache">>}
      \cup {<<"cache", k>> : k \in {"answer", "fail", "garbage", "trap", "empty"}}

InitCacheChains == \E configs \in CacheChains : InitChain(configs)

NextCacheChains ==
    \/ NextCache
    \/ \E r \in 1..MaxReq : GuestTrap(r)

SpecCacheChains == InitCacheChains /\ [][NextCacheChains]_vars

\* ------------------------------------------------------- the proxy plugin
\* The guest program of plugin/proxy: chains may name it "proxy". What a
\* nameserver of its list does with a query is the network's part: it
\* replies ("ok"), the socket cannot be bound ("nobind"), connect or send
\* fail ("unreachable"), recv fails ("refused"), or no datagram ever comes
\* back ("silent").
NsFates == {"ok", "nobind", "unreachable", "refused", "silent"}

\* run lines 32-42 after handle_dns returned Err for nameserver n: continue
\* with the next one, or after the last return the error
ProxyFail(f, n) ==
    IF n = Nameservers THEN [f EXCEPT !.gpc = "returned", !.out = PluginError]
    ELSE [f EXCEPT !.gpc = "next"]

\* run lines 21-33 and handle_dns lines 60-86 for the next nameserver of
\* the list: bind, connect and send, each ending the try on an error (the
\* UdpSocket is dropped, which closes the fd); then recv_size is called
ProxySend(r) ==
    /\ tasks[r].pc = "run"
    /\ chain[Top(r).pool] = "proxy"
    /\ Top(r).gpc \in {"start", "next"}
    /\ \E fates \in [1..Nameservers -> NsFates], fd \in FreeFds :
          /\ Top(r).gpc = "next" => fates = Top(r).host.seen
          /\ LET n == IF Top(r).gpc = "start" THEN 1 ELSE Top(r).host.key + 1
                 i == Top(r).iso
                 f == [Top(r) EXCEPT
                          !.host = [op |-> "udp_recv", key |-> n,
                                    seen |-> fates, back |-> fd]]
                 bound == UdpInnerBind(isolates[i],
                             [err |-> IF fates[n] = "nobind"
                                      THEN ECONNREFUSED ELSE 0,
                              fd |-> fd, peer |-> "v4"])
                 sent == UdpInnerUse(bound.hs, fd,
                            [err |-> IF fates[n] = "unreachable"
                                     THEN ECONNREFUSED ELSE 0,
                             fd |-> 0, peer |-> "v4"])
             IN  /\ isolates' = [isolates EXCEPT ![i] =
                       IF sent.res # 0 THEN UdpClose(sent.hs, fd).hs
                       ELSE sent.hs]
                 /\ fdHist' = [fdHist EXCEPT ![i] =
                       IF bound.res # 0 THEN @
                       ELSE [@ EXCEPT ![fd] = IF sent.res # 0 THEN "closed"
                                              ELSE "udp"]]
                 /\ tasks' = [tasks EXCEPT ![r].stack =
                       SetTop(@, IF sent.res # 0 THEN ProxyFail(f, n)
                                 ELSE [f EXCEPT !.gpc = "recv"])]
    /\ UNCHANGED <<chainVars, mapVars, idle, srv, responses, lastOp>>

\* handle_dns lines 88-97 and run lines 33-36: the recv of the host
\* (UdpHelper::inner_recv awaits the socket, without a timeout) comes back
\* with the reply, which the run returns, or with an error
ProxyRecv(r) ==
    /\ tasks[r].pc = "run"
    /\ Top(r).gpc = "recv"
    /\ LET f == Top(r)
           n == f.host.key
           fd == f.host.back
           i == f.iso
           rcv == UdpInnerUse(isolates[i], fd,
                     [err |-> IF f.host.seen[n] = "ok" THEN 0
                              ELSE ECONNREFUSED,
                      fd |-> 0, peer |-> "v4"])
       IN  /\ f.host.seen[n] # "silent"
           /\ isolates' = [isolates EXCEPT ![i] = UdpClose(rcv.hs, fd).hs]
           /\ fdHist' = [fdHist EXCEPT ![i][fd] = "closed"]
           /\ tasks' = [tasks EXCEPT ![r].stack =
                 SetTop(@, IF rcv.res # 0 THEN ProxyFail(f, n)
                           ELSE [f EXCEPT !.gpc = "returned",
                                          !.out = Answer(f.arg)])]
    /\ UNCHANGED <<chainVars, mapVars, idle, srv, responses, lastOp>>

\* The proxy as the only plugin, under a client that sends one query after
\* the other.
InitProxy == InitChain(<<"proxy">>)

TaskProxy(r) ==
    \/ HandleDnsGetPlugin(r)
    \/ ProxySend(r)
    \/ ProxyRecv(r)
    \/ HandleDnsReturn(r)
    \/ ServerInnerHandle(r)

NextProxy ==
    \/ ServeAcceptSeq
    \/ ServerHandle
    \/ \E r \in 1..MaxReq : TaskProxy(r)

\* the scheduler polls every request task that can take a step
SpecProxy ==
    /\ InitProxy
    /\ [][NextProxy]_vars
    /\ \A r \in 1..MaxReq : WF_vars(TaskProxy(r))

\* ------------------------------------------------------- cooperative yield
\* The request tasks on the worker threads of the runtime. A task gets a
\* thread when one is free and keeps it until it returns Pending at an await
\* or ends; an action is what a task does between two such points. The
\* guest "spin" loops without a host call.
Running ==
    {r \in 1..MaxReq : tasks[r].stack # <<>> /\ Top(r).gpc = "spin"}

WorkerFree == Cardinality(Running) < Workers

\* The spinning guest runs on: the compiled code counts fuel only with
\* consume_fuel, and then the store's out of fuel behaviour decides; with
\* injection the fiber of call_run yields to the scheduler, else the guest
\* keeps the thread.
GuestWork(r) ==
    /\ tasks[r].pc = "run"
    /\ chain[Top(r).pool] = "spin"
    /\ \/ Top(r).gpc = "spin"
       \/ Top(r).gpc \in {"start", "yielded"} /\ WorkerFree
    /\ LET yields == consume_fuel /\ isolates[Top(r).iso].out_of_gas = "inject"
       IN  tasks' = [tasks EXCEPT ![r].stack =
              SetTop(@, [Top(r) EXCEPT
                            !.gpc = IF yields THEN "yielded" ELSE "spin"])]
    /\ UNCHANGED <<chainVars, mapVars, poolVars, srv, responses, lastOp>>

InitYield ==
    \E configs \in {<<"spin">>, <<"identity", "spin">>} : InitChain(configs)

ServeYield == WorkerFree /\ (ServeAccept \/ ServerHandle)

TaskYield(r) ==
    \/ GuestWork(r)
    \/ WorkerFree /\ HandleDnsGetPlugin(r)
    \/ WorkerFree /\ GuestCallNext(r)
    \/ WorkerFree /\ CallNextGetPlugin(r)

NextYield ==
    \/ ServeYield
    \/ \E r \in 1..MaxReq : TaskYield(r)

\* the scheduler polls every task that is ready as soon as a thread is free
SpecYield ==
    /\ InitYield
    /\ [][NextYield]_vars
    /\ WF_vars(ServeYield)
    /\ \A r \in 1..MaxReq : WF_vars(TaskYield(r))

\* ---------------------------------------------------------------- start-up
\* create_server: the order of its two constructors
CreateServerOrder_ListenFirst == <<"listen", "chain">>

CreateServerOrder == <<"chain", "listen">>

\* what follows a constructor of create_server that returned Ok: the other
\* one, the next server of the stream, or the end of try_collect
CreateServerNext ==
    IF boot.step < Len(CreateServerOrder)
    THEN [boot EXCEPT !.step = @ + 1]
    ELSE IF boot.server < Len(boot.servers)
    THEN [boot EXCEPT !.server = @ + 1, !.step = 1]
    ELSE [boot EXCEPT !.pc = "spawn"]

\* create_server: PluginChain::new(..).await?
CreateServerChain ==
    /\ boot.pc = "create"
    /\ CreateServerOrder[boot.step] = "chain"
    /\ LET s == boot.server
           r == PluginChainNew(boot.servers[s], 1)
           done == [boot EXCEPT !.tried = @ \cup {s},
                                !.validated = @ \cup {<<s, k>> : k \in r.validated}]
       IN  boot' = IF r.ok
                   THEN [CreateServerNext EXCEPT
                            !.tried = done.tried, !.validated = done.validated,
                            !.chains = @ \cup {s}]
                   ELSE [done EXCEPT !.pc = "failed"]
    /\ UNCHANGED <<chain, head, next_plugin, poolVars, mapVars, srv, tasks,
                   responses, lastOp>>

\* create_server: UdpHandle::new(listen_addr).await?, the bind of the
\* listener, which the OS may refuse
CreateServerListen ==
    /\ boot.pc = "create"
    /\ CreateServerOrder[boot.step] = "listen"
    /\ \E bound \in BOOLEAN :
          boot' = IF bound
                  THEN [CreateServerNext EXCEPT !.opened = @ \cup {boot.server}]
                  ELSE [boot EXCEPT !.pc = "failed"]
    /\ UNCHANGED <<chain, head, next_plugin, poolVars, mapVars, srv, tasks,
                   responses, lastOp>>

\* run: every server of the collected list is spawned
RunSpawn ==
    /\ boot.pc = "spawn"
    /\ boot' = [boot EXCEPT !.pc = "serving"]
    /\ UNCHANGED <<chain, head, next_plugin, poolVars, mapVars, srv, tasks,
                   responses, lastOp>>

\* a spawned server accepts a query and answers it
BootServe(s) ==
    /\ boot.pc = "serving"
    /\ s \in 1..Len(boot.servers)
    /\ s \notin boot.answered
    /\ boot' = [boot EXCEPT !.answered = @ \cup {s}]
    /\ UNCHANGED <<chain, head, next_plugin, poolVars, mapVars, srv, tasks,
                   responses, lastOp>>

\* run after Config::parse: no chain is built, no server spawned
InitBoot ==
    /\ InitFor(<<>>, 0)
    /\ \E servers \in SeqsUpTo(SeqsUpTo(PluginFiles, MaxBootChain) \ {<<>>},
                                MaxServers) \ {<<>>} :
          boot = [NoBoot EXCEPT !.servers = servers, !.pc = "create"]

NextBoot ==
    \/ CreateServerChain
    \/ CreateServerListen
    \/ RunSpawn
    \/ \E s \in 1..MaxServers : BootServe(s)

SpecBoot == InitBoot /\ [][NextBoot]_vars

\* ===================================================================== C1
Reqs == 1..MaxReq

\* C1: when the head plugin's run returned a PluginError, handle_dns
\* returned Ok with the request turned into a response (QR = 1) with
\* response code SERVFAIL, the id and the question of the request kept, and
\* the bytes are the serialization of that message.
C1_PluginErrorIsServFail ==
    \A r \in Reqs :
       tasks[r].headRet.k = "perr" =>
          LET h == tasks[r].hres
          IN  /\ h.k = "Ok"
              /\ h.msg.qr = 1
              /\ h.msg.rcode = SERVFAIL
              /\ h.msg.id = tasks[r].msg.id
              /\ h.msg.q = tasks[r].msg.q
              /\ h.bytes = to_vec(h.msg)
              /\ parses(h.bytes) /\ from_vec(h.bytes) = h.msg

C1_Witness ==
    \E r \in Reqs :
       /\ tasks[r].headRet.k = "perr"
       /\ tasks[r].hres.k = "Ok"
       /\ tasks[r].msg.id = 2

\* ===================================================================== C2
\* C2 as stated: whatever the head plugin's run did, handle_dns returned Ok
\* (the plugin's bytes or a synthesized SERVFAIL), never an error.
C2_NeverAnError ==
    \A r \in Reqs : tasks[r].hres.k \in {"unset", "Ok"}

\* C2 amended: handle_dns returns Ok exactly when the run returned bytes
\* that parse (then these bytes) or a PluginError (then the SERVFAIL made of
\* the request); a guest trap is Error::PluginRun, a failed get of the head
\* pool is Error::PluginPool and Ok bytes that do not parse are Error::Proto.
C2_OkOrTypedError ==
    \A r \in Reqs :
       tasks[r].hres.k # "unset" =>
          LET h == tasks[r].hres
              run == tasks[r].headRet
          IN  /\ tasks[r].failedAt = head <=> h.k = "PluginPool"
              /\ run.k = "trap" <=> h.k = "PluginRun"
              /\ (run.k = "ok" /\ ~parses(run.data)) <=> h.k = "Proto"
              /\ (run.k = "ok" /\ parses(run.data)) =>
                    h.k = "Ok" /\ h.bytes = run.data
              /\ run.k = "perr" =>
                    /\ h.k = "Ok"
                    /\ h.bytes = to_vec([tasks[r].msg EXCEPT
                                            !.qr = 1, !.rcode = SERVFAIL])
              /\ h.k \in {"Ok", "PluginPool", "PluginRun", "Proto"}

C2_Witness ==
    \E r1, r2 \in Reqs :
       /\ tasks[r1].hres.k = "PluginPool"
       /\ tasks[r2].hres.k \in {"PluginRun", "Proto"}

\* ===================================================================== C3
RespondsOf(r) == SelectSeq(responses, LAMBDA e : e.req = r)

Ended(r) == tasks[r].pc \in {"done", "respond_failed"}

Started(r) == tasks[r].pc # "new"

\* C4: the serve loop is always about to accept or about to dispatch the
\* request it accepted; an acceptor error leaves it about to accept, and no
\* step of a request task (plugin error, handle_dns error, respond error)
\* changes the loop.
C4_LoopNeverStops ==
    /\ [](srv.pc \in {"accept", "handle"})
    /\ [][/\ srv'.errs # srv.errs => srv'.pc = "accept"
          /\ (\E r \in Reqs : Started(r) /\ tasks'[r] # tasks[r]) => srv' = srv]_vars

C4_Witness ==
    /\ srv.pc = "accept"
    /\ srv.errs > 0
    /\ \E r \in Reqs : tasks[r].pc = "respond_failed"
    /\ \E r \in Reqs : tasks[r].hres.k = "PluginPool"
    /\ \E r \in Reqs : tasks[r].headRet.k \in {"perr", "trap"}

\* ===================================================================== C5
IsoIds == DOMAIN isolates

\* C5: an isolate that a get_plugin hands out (it becomes leased in the
\* step) has an empty udp fd map and an empty tcp fd map, whatever its maps
\* held while it was idle.
C5_AcquiredIsClean ==
    [][\A i \in IsoIds :
          (isolates[i].st # "leased" /\ isolates'[i].st = "leased") =>
             /\ DOMAIN isolates'[i].udp = {}
             /\ DOMAIN isolates'[i].tcp = {}]_vars

\* an isolate is leased again after a request left two sockets open in it
C5_Witness ==
    \E i \in IsoIds :
       /\ isolates[i].st = "leased"
       /\ \A fd \in {3, 4} : fdHist[i][fd] = "reset"
       /\ DOMAIN isolates[i].udp = {}
       /\ DOMAIN isolates[i].tcp = {}
       /\ tasks[2].pc = "run"

\* ===================================================================== C6
UseOps ==
    {"udp_connect", "udp_send", "udp_recv", "udp_send_to", "udp_recv_from",
     "tcp_accept", "tcp_read", "tcp_write", "tcp_flush"}

NotOpen == {"never", "closed", "reset"}

\* C6: an fd number that the guest closed (through the interface that
\* opened it), that a reset dropped, or that was never opened, and that no
\* bind/connect/accept of the isolate returned since, is in neither fd map,
\* and every udp connect/send/recv/send_to/recv_from and every tcp
\* accept/read/write/flush on it returns EBADF.
C6_ClosedFdIsBad ==
    /\ [](\A i \in IsoIds : \A fd \in Fds :
             fdHist[i][fd] \in NotOpen =>
                fd \notin DOMAIN isolates[i].udp \cup DOMAIN isolates[i].tcp)
    /\ [][(/\ lastOp' # lastOp
           /\ lastOp'.op \in UseOps
           /\ fdHist[lastOp'.iso][lastOp'.fd] \in NotOpen) =>
              lastOp'.res = EBADF]_vars

\* a read on the number of a closed stream while another socket is open
C6_Witness ==
    /\ lastOp.op = "tcp_read"
    /\ lastOp.res = EBADF
    /\ fdHist[lastOp.iso][lastOp.fd] = "closed"
    /\ \E fd \in Fds : fdHist[lastOp.iso][fd] = "udp"

\* ===================================================================== C7
\* C7: tcp bind returns an fd that is a listener, tcp connect and accept
\* return an fd that is a stream (each a number that was not in the map);
\* accept on a stream and read/write/flush on a listener return EBADF; an
\* fd that is in the tcp map before and after a step has the same kind.
C7_TcpLifecycle ==
    [][/\ \A i \in IsoIds : \A fd \in Fds :
             (fd \in DOMAIN isolates[i].tcp /\ fd \in DOMAIN isolates'[i].tcp)
                => isolates'[i].tcp[fd] = isolates[i].tcp[fd]
       /\ lastOp' # lastOp =>
             LET o == lastOp'
                 pre == isolates[o.iso].tcp
                 post == isolates'[o.iso].tcp
             IN  /\ (o.op = "tcp_bind" /\ o.res = 0) =>
                       o.ret \notin DOMAIN pre /\ post[o.ret] = "listener"
                 /\ (o.op \in {"tcp_connect", "tcp_accept"} /\ o.res = 0) =>
                       o.ret \notin DOMAIN pre /\ post[o.ret] = "stream"
                 /\ (o.op = "tcp_accept" /\ o.fd \in DOMAIN pre
                       /\ pre[o.fd] = "stream") => o.res = EBADF
                 /\ (o.op \in {"tcp_read", "tcp_write", "tcp_flush"}
                       /\ o.fd \in DOMAIN pre /\ pre[o.fd] = "listener")
                       => o.res = EBADF]_vars

\* accept on the stream that an accept on the listener returned
C7_Witness ==
    /\ lastOp.op = "tcp_accept"
    /\ lastOp.res = EBADF
    /\ lastOp.fd \in DOMAIN isolates[lastOp.iso].tcp
    /\ isolates[lastOp.iso].tcp[lastOp.fd] = "stream"
    /\ \E fd \in Fds :
          /\ fd \in DOMAIN isolates[lastOp.iso].tcp
          /\ isolates[lastOp.iso].tcp[fd] = "listener"

\* ===================================================================== C8
Depth(r) == Len(tasks[r].stack)

\* the guest on top of task r's stack enters call_next_plugin in this step
EntersCallNext(r) ==
    /\ Depth(r) >= 1
    /\ Len(tasks'[r].stack) = Depth(r)
    /\ Top(r).gpc = "start"
    /\ tasks'[r].stack[Depth(r)].gpc \in {"resumed", "calling"}

\* call_next_plugin of task r starts the next plugin's run in this step
StartsNext(r) == Depth(r) >= 1 /\ Len(tasks'[r].stack) = Depth(r) + 1

\* C8: a guest of the last pool of the plugin list gets none from
\* call_next_plugin, and that call leaves every pool and every isolate as
\* it was and starts no run; a guest of any other pool gets no none: the
\* call goes on to lease exactly one isolate, which belongs to the pool of
\* the next plugin of the list, and starts the run there.  The runs of one
\* request are on consecutive pools starting at the first.
C8_NextPoolInOrder ==
    /\ [](\A r \in Reqs : \A n \in 1..Depth(r) : tasks[r].stack[n].pool = n)
    /\ [][\A r \in Reqs :
            /\ EntersCallNext(r) =>
                  LET f == tasks'[r].stack[Depth(r)]
                  IN  IF Top(r).pool = Len(chain)
                      THEN /\ f.gpc = "resumed" /\ f.got = NoneResult
                           /\ UNCHANGED <<idle, isolates>>
                      ELSE f.gpc = "calling" /\ f.got.k # "none"
            /\ StartsNext(r) =>
                  LET f == tasks'[r].stack[Depth(r) + 1]
                  IN  /\ f.pool = Top(r).pool + 1
                      /\ f.iso[1] = f.pool
                      /\ isolates[f.iso].st # "leased"
                      /\ isolates'[f.iso].st = "leased"
                      /\ \A i \in DOMAIN isolates :
                            i # f.iso => isolates'[i] = isolates[i]]_vars

C8_Witness ==
    \E r \in Reqs :
       /\ Depth(r) = 3
       /\ tasks[r].stack[3].got = NoneResult
       /\ isolates[<<2, 1>>].st = "leased"

\* ===================================================================== C9
\* call_next_plugin of task r returns a run result to the caller in this step
ReturnsToCaller(r) ==
    /\ Depth(r) >= 2
    /\ Len(tasks'[r].stack) = Depth(r) - 1
    /\ Top(r).gpc = "returned"

\* C9: every run below the head was started with exactly the packet its
\* caller passed to call_next_plugin, and what call_next_plugin hands back
\* to the caller is exactly what that run returned (Ok bytes or
\* PluginError).
C9_PacketPassThrough ==
    /\ [](\A r \in Reqs : \A n \in 2..Depth(r) :
             tasks[r].stack[n].arg = tasks[r].stack[n - 1].sent)
    /\ [][\A r \in Reqs :
            ReturnsToCaller(r) =>
               /\ tasks'[r].stack[Depth(r) - 1].gpc = "resumed"
               /\ tasks'[r].stack[Depth(r) - 1].got = Top(r).out]_vars

C9_Witness ==
    \E r \in Reqs :
       /\ Depth(r) = 2
       /\ tasks[r].stack[1].sent # tasks[r].packet
       /\ tasks[r].stack[2].sent # tasks[r].stack[1].sent
       /\ tasks[r].stack[2].gpc = "resumed"
       /\ tasks[r].stack[2].got.k = "ok"

\* ==================================================================== C10
\* What the run of pool p of a chain with plugin list kinds returns for a
\* packet, computed by recursion over the chain; failed names the pool
\* whose get_plugin failed (0: none).
RECURSIVE RunOf(_, _, _, _)
RunOf(kinds, p, pkt, failed) ==
    LET kind == kinds[p]
        sent == Forwarded(kind, pkt)
        got == IF BuildChain(kinds).next[p] = 0 THEN NoneResult
               ELSE IF failed = p + 1 THEN Trap
               ELSE CallNextPluginResult(
                       [Frame(p + 1, <<0, 0>>, sent) EXCEPT
                           !.out = RunOf(kinds, p + 1, sent, failed)])
    IN  IF kind = "trap" THEN Trap
        ELSE IF kind \notin Forwarders
        THEN GuestResult(kind, Frame(p, <<0, 0>>, pkt))
        ELSE IF got.k = "trap" THEN Trap
        ELSE GuestResult(kind, [Frame(p, <<0, 0>>, pkt) EXCEPT !.got = got])

\* handle_dns of the chain with plugin list kinds, as a function
HandleDnsOf(kinds, dns_message, dns_packet, failed) ==
    IF failed = 1 THEN HErr("PluginPool")
    ELSE HandleDnsResult(dns_message, RunOf(kinds, 1, dns_packet, failed))

\* C10: with an identity plugin at the head, handle_dns returns what
\* handle_dns of the chain of the downstream plugins returns for the same
\* message and packet: the same Ok message and bytes or the same error; if
\* a downstream get_plugin failed both are errors.
C10_IdentityLaw ==
    \A r \in Reqs :
       (/\ tasks[r].hres.k # "unset"
        /\ Len(chain) >= 2
        /\ chain[1] = "identity"
        /\ tasks[r].failedAt # 1) =>
          LET direct == HandleDnsOf(Tail(chain), tasks[r].msg, tasks[r].packet,
                                    IF tasks[r].failedAt = 0 THEN 0
                                    ELSE tasks[r].failedAt - 1)
          IN  IF tasks[r].failedAt = 0
              THEN tasks[r].hres = direct
              ELSE tasks[r].hres.k # "Ok" /\ direct.k # "Ok"

C10_Witness ==
    \E r1, r2 \in Reqs :
       /\ chain = <<"identity", "rewrite", "answer">>
       /\ tasks[r1].hres.k = "Ok"
       /\ tasks[r1].hres.msg.q = 2
       /\ tasks[r2].hres.k = "Ok"

\* ==================================================================== C11
\* the frames of task r above the head: the runs call_next_plugin started
LeaseHolders(i) ==
    {<<r, n>> \in Reqs \X (1..MaxChain) :
        n <= Depth(r) /\ tasks[r].stack[n].iso = i}

\* call_next_plugin of task r completes in this step
CallNextCompletes(r) == Depth(r) >= 2 /\ Len(tasks'[r].stack) < Depth(r)

\* C11: the isolate call_next_plugin leased is in use exactly while the
\* caller waits in the call; in the step in which the call completes, with
\* a result (Ok bytes or PluginError) or with an error, the isolate goes
\* from leased to idle and is back in the slots of its pool, so an isolate
\* is leased only while a frame of a running request holds it.
C11_NextLeaseReturned ==
    /\ [](\A r \in Reqs : \A n \in 1..Depth(r) :
             /\ isolates[tasks[r].stack[n].iso].st = "leased"
             /\ n < Depth(r) => tasks[r].stack[n].gpc = "waiting")
    /\ [](\A i \in IsoIds :
             isolates[i].st = "leased" => Cardinality(LeaseHolders(i)) = 1)
    /\ [][\A r \in Reqs :
            CallNextCompletes(r) =>
               LET i == Top(r).iso
                   caller == tasks'[r].stack[Depth(r) - 1]
               IN  /\ isolates'[i].st = "idle"
                   /\ \E k \in 1..Len(idle'[i[1]]) : idle'[i[1]][k] = i
                   /\ caller.gpc \in {"resumed", "trapped"}
                   /\ Top(r).out.k \in {"ok", "perr"} <=> caller.gpc = "resumed"
                   /\ Top(r).out.k = "trap" <=> caller.gpc = "trapped"]_vars

\* the call came back with the error of a trapped downstream run while
\* another request runs the same downstream plugin
C11_Witness ==
    \E r, q \in Reqs :
       /\ Depth(r) = 1
       /\ Top(r).gpc = "trapped"
       /\ chain[1] \in Forwarders
       /\ tasks[r].failedAt = 0
       /\ Depth(q) = 2
       /\ \E i \in IsoIds : i[1] = 2 /\ isolates[i].st = "idle"

\* ==================================================================== C12
Built(p) == {i \in IsoIds : i[1] = p /\ isolates[i].st # "none"}

InSlots(p) == {idle[p][k] : k \in 1..Len(idle[p])}

\* C12: every object a pool built is either in the slots of its own pool
\* (once) or held by a frame of a request that has not ended; a request
\* that ended, failed or was dropped holds none, so when no request is
\* running every pool has all the objects it ever built in its slots.
C12_NoLeaseLost ==
    /\ \A p \in 1..Len(chain) :
          /\ InSlots(p) = {i \in Built(p) : isolates[i].st = "idle"}
          /\ Len(idle[p]) = Cardinality(InSlots(p))
          /\ \A i \in Built(p) :
                isolates[i].st = "leased" <=> LeaseHolders(i) # {}
    /\ \A r \in Reqs : tasks[r].pc \notin {"run"} => tasks[r].stack = <<>>
    /\ (\A r \in Reqs : tasks[r].stack = <<>>) =>
          \A p \in 1..Len(chain) : Len(idle[p]) = Cardinality(Built(p))

\* a request was dropped while it held a lease in each of the two pools,
\* another one failed, and both pools have their two objects back
C12_Witness ==
    /\ Len(chain) = 2
    /\ tasks[1].pc = "cancelled"
    /\ tasks[2].hres.k = "PluginRun"
    /\ \A p \in 1..2 : Len(idle[p]) = 2 /\ idle[p][1][2] = 2

\* ==================================================================== C13
\* the frames of task r whose guest is suspended in call_next_plugin
Suspended(r) == 1..(Depth(r) - 1)

\* C13: a run that is suspended in call_next_plugin keeps its isolate
\* leased, and no step changes that isolate's host state (udp and tcp fd
\* maps) or the frame's isolate; the lease of the next plugin's isolate
\* begins in a step taken after the caller entered the call and ends in
\* the step that resumes the caller (or fails it), so the leases of one
\* request are nested along the chain, on different isolates.
C13_StrictStacking ==
    /\ [](\A r \in Reqs :
             /\ \A n \in Suspended(r) :
                   /\ tasks[r].stack[n].gpc = "waiting"
                   /\ isolates[tasks[r].stack[n].iso].st = "leased"
             /\ \A n \in 1..Depth(r) :
                   tasks[r].stack[n].gpc = "waiting" => n < Depth(r)
             /\ \A n, m \in 1..Depth(r) :
                   n # m => tasks[r].stack[n].iso # tasks[r].stack[m].iso)
    /\ [][\A r \in Reqs :
            /\ \A n \in Suspended(r) :
                  LET i == tasks[r].stack[n].iso
                  IN  /\ isolates'[i] = isolates[i]
                      /\ tasks'[r].stack[n].iso = i
            /\ StartsNext(r) =>
                  /\ Top(r).gpc = "calling"
                  /\ isolates[tasks'[r].stack[Depth(r) + 1].iso].st # "leased"
            /\ CallNextCompletes(r) =>
                  /\ tasks[r].stack[Depth(r) - 1].gpc = "waiting"
                  /\ tasks'[r].stack[Depth(r) - 1].gpc # "waiting"
                  /\ isolates'[Top(r).iso].st = "idle"]_vars

\* the next plugin's guest opened a socket while its caller, which holds an
\* open socket of its own, waits
C13_Witness ==
    \E r \in Reqs :
       /\ Depth(r) = 2
       /\ lastOp.op = "tcp_bind" /\ lastOp.res = 0
       /\ lastOp.iso = tasks[r].stack[2].iso
       /\ DOMAIN isolates[tasks[r].stack[1].iso].udp # {}
       /\ DOMAIN isolates[tasks[r].stack[2].iso].tcp # {}
       /\ DOMAIN isolates[tasks[r].stack[1].iso].tcp = {}

\* ==================================================================== C14
OpenIn(i) == DOMAIN isolates[i].udp \cup DOMAIN isolates[i].tcp

\* C14: an isolate is held by at most one frame of one request; two
\* requests that run the same plugin at the same time hold different
\* isolates of its pool; a host call changes the host state of the caller's
\* isolate only; and a send or write on an fd number that is open in the
\* isolate of another request, not in the caller's own, returns EBADF.
C14_IsolateExclusive ==
    /\ [](\A i \in IsoIds : Cardinality(LeaseHolders(i)) <= 1)
    /\ [](\A r, q \in Reqs : \A n \in 1..Depth(r) : \A m \in 1..Depth(q) :
             (r # q /\ tasks[r].stack[n].pool = tasks[q].stack[m].pool) =>
                tasks[r].stack[n].iso # tasks[q].stack[m].iso)
    /\ [][lastOp' # lastOp /\ lastOp'.op # "none" =>
            /\ \A j \in IsoIds :
                  j # lastOp'.iso =>
                     /\ isolates'[j].udp = isolates[j].udp
                     /\ isolates'[j].tcp = isolates[j].tcp
            /\ (/\ lastOp'.op \in UseOps
                /\ lastOp'.fd \notin OpenIn(lastOp'.iso)
                /\ \E j \in IsoIds :
                      isolates[j].st = "leased" /\ lastOp'.fd \in OpenIn(j))
                  => lastOp'.res = EBADF]_vars

\* a request sent on the fd number of the socket that another running
\* request holds open, and got EBADF
C14_Witness ==
    \E r, q \in Reqs :
       /\ r # q
       /\ Depth(r) = 1 /\ Depth(q) = 1
       /\ lastOp.op = "udp_send"
       /\ lastOp.iso = Top(r).iso
       /\ lastOp.res = EBADF
       /\ lastOp.fd \in DOMAIN isolates[Top(q).iso].udp
       /\ Top(r).pool = Top(q).pool

\* ==================================================================== C15
\* task r waits in a get_plugin of pool p: no permit of the pool is free
WaitsOn(r, p) ==
    /\ Cardinality(Leased(p)) = MaxSize
    /\ \/ tasks[r].pc = "get_plugin" /\ p = head
       \/ /\ tasks[r].pc = "run"
          /\ Top(r).gpc = "calling"
          /\ p = next_plugin[Top(r).pool]

\* C15: every request that was dispatched eventually ends with its respond
\* call, also when it has to wait for an object of a pool because other
\* requests hold all of them; and a request holds its leases in pools of
\* strictly increasing position.
C15_NoPoolDeadlock ==
    /\ [](\A r \in LiveReqs : \A n \in 1..Len(tasks[r].stack) :
             tasks[r].stack[n].pool = n)
    /\ \A r \in LiveReqs :
          (tasks[r].pc # "new") ~> (tasks[r].pc \in {"done", "respond_failed"})

\* a request waits for an object of the head pool while the two objects of
\* the head pool and the two of the next pool are leased
C15_Witness ==
    \E r \in LiveReqs :
       /\ WaitsOn(r, head)
       /\ Len(chain) = 2
       /\ Cardinality(Leased(2)) = MaxSize

\* ==================================================================== C16
\* the map_get of task r, which found an entry, takes its next step
MapGetDecides(r) ==
    /\ Depth(r) >= 1
    /\ Top(r).gpc = "map_get"
    /\ Top(r).host.seen # <<>>
    /\ tasks'[r] # tasks[r]

\* the map_get of task r returns to the guest in this step
MapGetReturns(r) ==
    /\ Len(tasks'[r].stack) = Depth(r)
    /\ tasks'[r].stack[Depth(r)].gpc = Top(r).host.back

\* C16 as stated: a map_get that finds the entry written by
\* map_set(K, V, ttl) at time t0 returns V when there was no ttl or the
\* time is before t0 + ttl, and returns absent when the time is t0 + ttl or
\* later (at once for ttl = 0).
C16_TtlSemantics ==
    [][\A r \in Reqs :
          MapGetDecides(r) =>
             LET e == Top(r).host.seen[1]
             IN  /\ MapGetReturns(r)
                 /\ mapGot'.key = Top(r).host.key
                 /\ IF e.ttl = <<>> \/ now < e.at + e.ttl[1]
                    THEN mapGot'.res = <<e.data>>
                    ELSE mapGot'.res = <<>>]_vars

\* ==================================================================== C17
\* C17 as stated: a map_get on an entry whose timeout has passed returns
\* absent and leaves the key removed; no request ever waits for the lock
\* of an entry while it holds the read guard of its own lookup.
C17_EvictionCompletes ==
    /\ [](\A r \in Reqs : \A n \in 1..Depth(r) :
             tasks[r].stack[n].gpc # "map_remove_wait")
    /\ [][\A r \in Reqs :
            (MapGetDecides(r) /\ Expired(Top(r).host.seen[1], now)) =>
               /\ MapGetReturns(r)
               /\ mapGot'.res = <<>>
               /\ Top(r).host.key \notin
                     DOMAIN plugin_store_map'[MapOf(Top(r))]]_vars

\* ==================================================================== C18
\* C18 as stated: the pools of the chain operate on one map, so what a
\* guest of one pool wrote is what a guest of any other pool finds.
C18_OneMapPerChain ==
    \A p, q \in 1..Len(chain) : plugin_store_map[p] = plugin_store_map[q]

\* ==================================================================== C19
\* C19: a map_set and a map_remove change the entry of one key of one map
\* in one step, and never while a map_get that found the entry has not
\* returned: the entry is then still the one the map_get read.  A map_get
\* that returns a value returns the data of the entry the map holds at
\* that moment, one that returns absent found no entry, and no step of a
\* map_get changes a map (so none removes an entry written after its
\* lookup).
C19_MapLinearizable ==
    /\ [](\A r \in Reqs : \A n \in 1..Depth(r) :
             LET f == tasks[r].stack[n]
             IN  (f.gpc \in {"map_get", "map_remove_wait"}
                    /\ f.host.seen # <<>>) =>
                    /\ f.host.key \in DOMAIN plugin_store_map[MapOf(f)]
                    /\ plugin_store_map[MapOf(f)][f.host.key] = f.host.seen[1])
    /\ [][\A r \in Reqs :
            (Depth(r) >= 1 /\ Top(r).gpc = "map_get"
               /\ tasks'[r] # tasks[r]) =>
               /\ plugin_store_map' = plugin_store_map
               /\ MapGetReturns(r) =>
                     LET m == plugin_store_map[MapOf(Top(r))]
                         key == Top(r).host.key
                     IN  IF mapGot'.res = <<>>
                         THEN Top(r).host.seen = <<>>
                         ELSE /\ key \in DOMAIN m
                              /\ mapGot'.res = <<m[key].data>>
                              /\ ~Expired(m[key], now)]_vars
    /\ [][plugin_store_map' # plugin_store_map =>
            \E p \in 1..Len(chain) : \E key \in Keys :
               /\ ReadGuards(p, key) = {}
               /\ \A q \in 1..Len(chain) : \A k \in Keys :
                     (q # p \/ k # key) =>
                        /\ k \in DOMAIN plugin_store_map'[q]
                              <=> k \in DOMAIN plugin_store_map[q]
                        /\ k \in DOMAIN plugin_store_map[q] =>
                              plugin_store_map'[q][k] = plugin_store_map[q][k]]_vars

\* a map_get of one request holds the entry that another request wrote,
\* while that request runs and the entry's timeout has passed
C19_Witness ==
    \E r, q \in Reqs :
       /\ r # q
       /\ Depth(r) = 1 /\ Depth(q) = 1
       /\ Top(r).gpc = "map_get"
       /\ Top(r).host.seen # <<>>
       /\ Top(r).host.seen[1].data = "b"
       /\ Expired(Top(r).host.seen[1], now)
       /\ Top(q).gpc = "start"
       /\ Top(q).iso # Top(r).iso
       /\ tasks[q].ident # tasks[r].ident

\* ==================================================================== C20
\* the pool reached from pool p over k next_plugin links (0: none)
RECURSIVE Follow(_, _)
Follow(p, k) ==
    IF k = 0 \/ p = 0 THEN p ELSE Follow(next_plugin[p], k - 1)

\* C20: the chain of a plugin list of N plugins has N pools; handle_dns
\* starts at the pool of the first plugin; the pool of plugin i has the
\* pool of plugin i + 1 as next_plugin and the pool of the last plugin has
\* none; following the links from a pool never leads back to it and ends
\* after the last pool; no step changes the head or a link.
C20_ChainShape ==
    /\ [](/\ Len(chain) >= 1
          /\ DOMAIN next_plugin = 1..Len(chain)
          /\ DOMAIN idle = 1..Len(chain)
          /\ head = 1
          /\ \A i \in 1..(Len(chain) - 1) : next_plugin[i] = i + 1
          /\ next_plugin[Len(chain)] = 0
          /\ \A p \in 1..Len(chain) :
                /\ \A k \in 1..Len(chain) : Follow(p, k) # p
                /\ Follow(p, Len(chain) - p + 1) = 0)
    /\ [][head' = head /\ next_plugin' = next_plugin /\ chain' = chain]_vars

\* a chain of three pools after it served a request through all of them
C20_Witness ==
    /\ Len(chain) = 3
    /\ Follow(head, 2) = 3
    /\ \E r \in Reqs : Ended(r) /\ tasks[r].headRet.k = "ok"
    /\ \A p \in 1..3 : Len(idle[p]) = 1

\* ==================================================================== C21
\* the plugins of server s that load, compile and validate
Sound(s) ==
    \A k \in 1..Len(boot.servers[s]) :
        boot.servers[s][k] = [file |-> "ok", valid |-> "ok"]

\* C21: once PluginChain::new returned for a server, it failed exactly if
\* one of the server's plugins cannot be read or compiled or has a
\* valid_config call that does not return Ok; and a chain that was
\* constructed had valid_config called on an object of each of its pools.
C21_ConstructionFailsIff ==
    \A s \in boot.tried :
        /\ (s \notin boot.chains) <=> ~Sound(s)
        /\ s \in boot.chains =>
              \A k \in 1..Len(boot.servers[s]) : <<s, k>> \in boot.validated

\* a chain of two pools was constructed and validated, and the next
\* server's chain failed on the valid_config error of its first plugin,
\* after its second plugin was validated
C21_Witness ==
    /\ Len(boot.servers) = 2
    /\ boot.tried = {1, 2}
    /\ boot.chains = {1}
    /\ Len(boot.servers[1]) = 2
    /\ {<<1, 1>>, <<1, 2>>, <<2, 2>>} \subseteq boot.validated
    /\ Len(boot.servers[2]) = 2
    /\ boot.servers[2][1] = [file |-> "ok", valid |-> "err"]
    /\ boot.pc = "failed"

\* ==================================================================== C22
\* C22: a listener is open only for a server whose chain was constructed
\* before, so never for a server whose chain construction failed; and a
\* server has accepted a query only if the chain of every server of the
\* configuration was constructed.
C22_FailFastGate ==
    /\ boot.opened \subseteq boot.chains
    /\ \A s \in boot.tried \ boot.chains : s \notin boot.opened
    /\ boot.answered # {} => boot.chains = 1..Len(boot.servers)

\* both servers of a configuration were constructed, chain first, and the
\* second one answered a query
C22_Witness ==
    /\ Len(boot.servers) = 2
    /\ boot.chains = {1, 2}
    /\ boot.opened = {1, 2}
    /\ 2 \in boot.answered

\* ==================================================================== C23
\* the lease of the isolate on top of task r's stack, whose guest run ended
\* in a trap, is dropped in this step
TrappedLeaseDropped(r) ==
    /\ Depth(r) >= 1
    /\ Top(r).gpc = "trapped"
    /\ Len(tasks'[r].stack) < Depth(r)

\* C23: when the lease of an isolate whose guest run ended in a trap is
\* dropped, the pool discards the object: it is not among the pool's slots,
\* from which the next get_plugin would lease it; and a request whose
\* handle_dns returned the error of a trapped run is answered with the
\* request as a SERVFAIL response.
C23_TrappedIsDiscarded ==
    [][/\ \A r \in Reqs :
            TrappedLeaseDropped(r) =>
                /\ isolates'[Top(r).iso].st # "idle"
                /\ \A n \in 1..Len(idle'[Top(r).pool]) :
                      idle'[Top(r).pool][n] # Top(r).iso
       /\ \A r \in Reqs :
            Ended(r)' /\ tasks'[r].hres.k = "PluginRun" =>
                \E n \in 1..Len(responses') :
                    /\ responses'[n].req = r
                    /\ responses'[n].payload = to_vec(ServFailMut(tasks'[r].msg))
      ]_vars

\* ==================================================================== C24
\* C24: every object of a pool has the yield armed, from its creation and
\* after every recycle; a guest that loops without a host call is suspended
\* again and again, and a request whose task was spawned gets on with its
\* handle_dns whatever the guests of the other requests do.
C24_CooperativeYield ==
    /\ [](\A i \in IsoIds :
            isolates[i].st # "none" => isolates[i].out_of_gas = "inject")
    /\ \A r \in Reqs :
          /\ [](tasks[r].pc = "run" =>
                   <>(Depth(r) >= 1 /\ Top(r).gpc = "yielded"))
          /\ (tasks[r].pc = "get_plugin") ~> (tasks[r].pc # "get_plugin")

\* ==================================================================== C25
\* the map_get of the cache guest of task r returns an entry in this step:
\* an earlier request with the same question stored it and it has not
\* expired
CacheHit(r) ==
    /\ tasks[r].pc = "run"
    /\ Top(r).gpc = "map_get"
    /\ Top(r).host.back = "cache"
    /\ Top(r).host.seen # <<>>
    /\ ~Expired(Top(r).host.seen[1], now)
    /\ tasks'[r] # tasks[r]

\* C25: on a cache hit the run of the cache guest returns without a
\* call_next_plugin (no packet sent on, no frame pushed) an Ok response
\* with the id and the question of this request, the answers and the
\* response code of the stored response, and the QR bit set.
C25_CacheHit ==
    [][\A r \in Reqs :
          CacheHit(r) =>
             LET f == Top(r)
                 g == tasks'[r].stack[Depth(r)]
                 stored == from_vec(f.host.seen[1].data)
             IN  /\ Len(tasks'[r].stack) = Depth(r)
                 /\ g.gpc = "returned"
                 /\ g.sent = <<>>
                 /\ g.out.k = "ok"
                 /\ from_vec(g.out.data) =
                       Message(from_vec(f.arg).id, 1, stored.rcode,
                               from_vec(f.arg).q, stored.an)]_vars

\* the first request, of client c1 under id 1, was answered downstream; the
\* second one, of client c2 under id 2, was answered from the cache with the
\* stored answer under id 2
C25_Witness ==
    /\ Len(responses) = 2
    /\ responses[1].payload = to_vec(Message(1, 1, 0, 1, 1))
    /\ responses[2].payload = to_vec(Message(2, 1, 0, 1, 1))
    /\ mapGot.res = <<to_vec(Message(1, 1, 0, 1, 1))>>

\* ==================================================================== C26
\* the map_get of the cache guest of task r found an entry whose timeout
\* has passed, and the task takes a step
CacheExpired(r) ==
    /\ tasks[r].pc = "run"
    /\ Top(r).gpc = "map_get"
    /\ Top(r).host.back = "cache"
    /\ Top(r).host.seen # <<>>
    /\ Expired(Top(r).host.seen[1], now)
    /\ tasks'[r] # tasks[r]

\* C26: the cache stores the response of the downstream plugin with a
\* timeout of the time of the store plus the smallest ttl of its answers;
\* and a query that finds the entry after its timeout is a miss: its
\* map_get returns and the guest calls call_next_plugin again.
C26_CacheExpiry ==
    [][\A r \in Reqs :
          /\ (tasks[r].pc = "run" /\ Top(r).gpc = "resumed"
                /\ chain[Top(r).pool] = "cache" /\ tasks'[r] # tasks[r]
                /\ Top(r).got.k = "ok")
             => LET e == plugin_store_map'[1][CacheKey(Top(r).arg)]
                IN  /\ e.data = Top(r).got.data
                    /\ e.timeout = <<now + MaxTtl>>
          /\ CacheExpired(r) =>
                tasks'[r].stack[Depth(r)].gpc = "calling"]_vars

\* ==================================================================== C27
\* the tries of nameserver n fail whatever the proxy does
NsFails(fates, n) == fates[n] \in {"nobind", "unreachable", "refused"}

\* the run of the proxy guest of task r is on its way with these fates
ProxyRuns(r) ==
    /\ tasks[r].pc = "run"
    /\ Depth(r) = 1
    /\ Top(r).gpc \in {"recv", "next", "returned"}

\* C27: the run of the proxy returns an error exactly if every nameserver
\* of the list fails, and else the reply of the first nameserver of the
\* list that does not fail; and a request whose list has a nameserver that
\* replies is eventually answered with the reply, whatever the nameservers
\* before it do.
C27_ProxyFailover ==
    /\ [](\A r \in Reqs :
            ProxyRuns(r) /\ Top(r).gpc = "returned" =>
               LET fates == Top(r).host.seen
               IN  /\ Top(r).out = PluginError <=>
                         \A n \in 1..Nameservers : NsFails(fates, n)
                   /\ Top(r).out # PluginError =>
                         /\ Top(r).out = Answer(Top(r).arg)
                         /\ \E k \in 1..Nameservers :
                               /\ fates[k] = "ok"
                               /\ \A j \in 1..(k - 1) : NsFails(fates, j))
    /\ \A r \in Reqs :
          (ProxyRuns(r) /\ \E k \in 1..Nameservers : Top(r).host.seen[k] = "ok")
             ~> (\E n \in 1..Len(responses) :
                   /\ responses[n].req = r
                   /\ responses[n].payload = Answer(tasks[r].packet).data)

\* ==================================================================== C28
\* what a recv_from or an accept of the operating system can report for a
\* peer of either address family
AnyPeer == {[err |-> 0, fd |-> fd, peer |-> pf] : fd \in Fds, pf \in {"v4", "v6"}}

ReadOps == {"udp_recv", "udp_recv_from", "tcp_read"}

\* C29: a recv, recv_from or read that returns Ok returns at most as many
\* bytes as the size it was called with, every one of them a byte that was
\* received, and no byte with size 0; and with size 0 the call on an open
\* socket whose system call succeeds returns Ok with the empty byte string.
C29_ReadIsTruncated ==
    /\ [](\A i \in IsoIds : \A fd \in Fds : \A op \in ReadOps :
            \A data \in SeqsUpTo(Bytes, MaxLen) :
              LET o == InnerRead(op, isolates[i], fd, 0,
                                 [err |-> 0, fd |-> 0, peer |-> "v4"], data)
                  open == IF op = "tcp_read"
                          THEN fd \in DOMAIN isolates[i].tcp
                               /\ isolates[i].tcp[fd] = "stream"
                          ELSE fd \in DOMAIN isolates[i].udp
              IN  open => o.res = 0 /\ o.ret = <<>>)
    /\ [][(lastOp' # lastOp /\ lastOp'.op \in ReadOps /\ lastOp'.res = 0) =>
            /\ Len(lastOp'.ret) <= lastOp'.arg
            /\ \A k \in 1..Len(lastOp'.ret) : lastOp'.ret[k] \in Bytes
            /\ lastOp'.arg = 0 => lastOp'.ret = <<>>]_vars

\* a read with size 1 on a stream returned one byte
C29_Witness ==
    /\ lastOp.op = "tcp_read"
    /\ lastOp.res = 0
    /\ lastOp.arg = 1
    /\ Len(lastOp.ret) = 1

\* ==================================================================== C30
\* request r is suspended inside the chain
InChain(r) == tasks[r].pc \in {"get_plugin", "run"}

\* C30: the serve loop never waits for a request in handling: with requests
\* suspended inside the chain it can accept the next packet of any client
\* (as long as the clients have requests left to send) and can spawn the
\* request it accepted, and a step of the loop changes no request that is
\* in handling.
C30_AcceptDoesNotWait ==
    /\ []((srv.pc = "accept" /\ srv.accepted < MaxReq
            /\ Cardinality(InFlight) < MaxInFlight) => ENABLED ServeAccept)
    /\ [](srv.pc = "handle" => ENABLED ServerHandle)
    /\ [][srv' # srv => \A r \in InFlight : tasks'[r] = tasks[r]]_vars

\* the second request of a client has its response, the only one so far,
\* while the client's first request is suspended inside the chain
C30_Witness ==
    /\ InChain(1)
    /\ Depth(1) >= 1
    /\ tasks[2].pc = "done"
    /\ tasks[1].ident = tasks[2].ident
    /\ Len(responses) = 1
    /\ responses[1].req = 2

\* ==================================================================== C31
\* C31: an isolate that sits idle in its pool has no open socket: its udp
\* and tcp fd tables are empty.
C31_IdleIsClean ==
    \A i \in IsoIds :
       isolates[i].st = "idle" =>
          /\ isolates[i].udp = EmptyMap
          /\ isolates[i].tcp = EmptyMap

\* ==================================================================== C32
\* the step takes isolate i out of the slots of its pool: Manager::recycle
Recycled(i) == isolates[i].st = "idle" /\ isolates'[i].st = "leased"

PerRequest == {"st", "udp", "tcp", "out_of_gas"}

\* C32: a recycle changes no field of the host state but the lease state,
\* the two fd maps and the yield setting, and leaves every shared map as it
\* was; and load_config on every object a pool built returns the config
\* text of the pool.
C32_RecycleKeepsShared ==
    /\ [][\A i \in IsoIds :
            Recycled(i) =>
               /\ \A f \in (DOMAIN isolates[i]) \ PerRequest :
                     isolates'[i][f] = isolates[i][f]
               /\ plugin_store_map' = plugin_store_map]_vars
    /\ [](\A i \in IsoIds :
            isolates[i].st \in {"idle", "leased"} =>
               /\ LoadConfig(isolates[i]) = chain[i[1]]
               /\ isolates[i].next_plugin = next_plugin[i[1]]
               /\ isolates[i].plugin_store_map = i[1])

\* the second request runs in the isolate of the cache plugin that served
\* the first, recycled while the map of its pool held an entry
C32_Witness ==
    /\ tasks[1].pc = "done"
    /\ Depth(2) >= 1
    /\ tasks[2].stack[1].iso = <<1, 1>>
    /\ isolates[<<1, 1>>].st = "leased"
    /\ DOMAIN plugin_store_map[1] # {}

\* ==================================================================== C33
\* task r calls map_get in this step
MapGetCalled(r) ==
    /\ Depth(r) >= 1
    /\ Top(r).gpc # "map_get"
    /\ Len(tasks'[r].stack) = Depth(r)
    /\ tasks'[r].stack[Depth(r)].gpc = "map_get"

\* C33: every entry of a map has the value, and as its expiry the time of
\* the map_set that wrote it last plus that call's ttl, or no expiry when
\* that call had no ttl, whatever entry the call replaced; a step that
\* changes the entry of a key either removes it or writes it at the
\* present time; a map_get of a key that is not in the map finds nothing
\* and returns absent; and a map_remove of a key that is not in the map
\* leaves the map as it is.
C33_MapSetIsUpsert ==
    /\ [](\A p \in 1..Len(chain) : \A key \in Keys :
            LET m == plugin_store_map[p]
            IN  IF key \in DOMAIN m
                THEN /\ m[key].data \in MapValues
                     /\ m[key].timeout = SetTimeout(m[key].ttl, m[key].at)
                ELSE Remove(m, key) = m)
    /\ [][\A p \in 1..Len(chain) : \A key \in Keys :
            LET m == plugin_store_map[p]
                n == plugin_store_map'[p]
            IN  /\ (key \in DOMAIN n /\ (key \notin DOMAIN m \/ n[key] # m[key]))
                      => n[key].at = now
                /\ (key \notin DOMAIN n /\ key \in DOMAIN m)
                      => \A q \in Keys \ {key} :
                            /\ q \in DOMAIN n <=> q \in DOMAIN m
                            /\ q \in DOMAIN m => n[q] = m[q]]_vars
    /\ [][\A r \in Reqs :
            /\ MapGetCalled(r) =>
                  LET h == tasks'[r].stack[Depth(r)].host
                  IN  h.key \notin DOMAIN plugin_store_map[MapOf(Top(r))]
                         => h.seen = <<>>
            /\ (Depth(r) >= 1 /\ Top(r).gpc = "map_get"
                  /\ Top(r).host.seen = <<>> /\ tasks'[r] # tasks[r])
                  => /\ MapGetReturns(r)
                     /\ mapGot'.res = <<>>]_vars

\* a map_set without ttl replaced an entry that had an expiry, after the
\* clock moved
C33_Witness ==
    \E p \in 1..Len(chain) : \E key \in DOMAIN plugin_store_map[p] :
       LET e == plugin_store_map[p][key]
       IN  /\ e.replaced = "timed"
           /\ e.ttl = <<>>
           /\ e.timeout = <<>>
           /\ e.at >= 1

\* ==================================================================== C34
OpenFds(hs) == DOMAIN hs.udp \cup DOMAIN hs.tcp

\* C34: no fd number is in the udp and in the tcp fd map of one host state;
\* a bind, connect or accept that returns Ok returns a number that was in
\* neither map of the host state, and leaves every entry the maps held as
\* it was; and an fd that is in a map before and after a step is in the
\* same map with the same socket kind.
C34_FdsAreUnique ==
    /\ [](\A i \in IsoIds : DOMAIN isolates[i].udp \cap DOMAIN isolates[i].tcp = {})
    /\ [][(lastOp' # lastOp /\ lastOp'.res = 0
             /\ lastOp'.op \in UdpOpeners \cup TcpOpeners) =>
            LET i == lastOp'.iso
            IN  /\ lastOp'.ret \notin OpenFds(isolates[i])
                /\ lastOp'.ret \in OpenFds(isolates'[i])
                /\ \A fd \in DOMAIN isolates[i].udp :
                      /\ fd \in DOMAIN isolates'[i].udp
                      /\ isolates'[i].udp[fd] = isolates[i].udp[fd]
                /\ \A fd \in DOMAIN isolates[i].tcp :
                      /\ fd \in DOMAIN isolates'[i].tcp
                      /\ isolates'[i].tcp[fd] = isolates[i].tcp[fd]]_vars
    /\ [][\A i \in IsoIds : \A fd \in OpenFds(isolates[i]) \cap OpenFds(isolates'[i]) :
            /\ fd \in DOMAIN isolates[i].udp <=> fd \in DOMAIN isolates'[i].udp
            /\ fd \in DOMAIN isolates[i].tcp =>
                  isolates'[i].tcp[fd] = isolates[i].tcp[fd]]_vars

\* a connect returned an fd to a host state that holds a udp socket
C34_Witness ==
    /\ lastOp.op = "tcp_connect"
    /\ lastOp.res = 0
    /\ LET hs == isolates[lastOp.iso]
       IN  /\ DOMAIN hs.udp # {}
           /\ lastOp.ret \in DOMAIN hs.tcp
           /\ hs.tcp[lastOp.ret] = "stream"

\* ==================================================================== C35
\* the guest and the host agree on the Addr of the calls that pass one
\* from the guest to the host and on the one inner_accept returns
AddrCodecAgrees ==
    \A sa \in SocketAddrs :
       /\ DecodeAddr(EncodeAddr(sa)) = sa
       /\ DecodeAddr(TcpAcceptAddr(sa)) = sa

\* C35 as stated: the SocketAddr the guest's recv_from returns is the
\* address the datagram came from, octet for octet and with its port; the
\* Addr the host returned is the one inner_accept returns for that peer;
\* and an Addr the guest encodes is decoded by the host to the same address.
C35_AddrRoundTrip ==
    /\ AddrCodecAgrees
    /\ (lastOp.op = "udp_recv_from" /\ lastOp.res = 0) =>
          /\ lastOp.ret.decoded = lastOp.ret.source
          /\ lastOp.ret.addr = TcpAcceptAddr(lastOp.ret.source)

\* ==================================================================== C36
\* what a system call can report: an errno or success, with a descriptor
\* and a peer of either address family
AnyOs ==
    {[err |-> e, fd |-> fd, peer |-> pf] :
        e \in {0, ECONNREFUSED}, fd \in Fds, pf \in {"v4", "v6"}}

\* host call result o left the fd maps of host state hs as they were
SameFdMaps(hs, o) == o.hs.udp = hs.udp /\ o.hs.tcp = hs.tcp

Aborted(r, n) == n <= Depth(r) /\ tasks[r].stack[n].gpc = "trapped"

\* C37: a call_next_plugin whose get_plugin fails hands its guest no value:
\* the guest's run is over.  A run that is over with an error does nothing
\* more: the next step of its request drops it, and when it was called by
\* a plugin, that plugin's run is over in the same way, having got no
\* value from its call; when it was the head's run, handle_dns returns
\* Error::PluginRun.  A request whose handle_dns returned PluginRun and
\* whose task ended has one response, the request as SERVFAIL.
C37_HostErrorAborts ==
    /\ [][\A r \in Reqs :
            (Depth(r) >= 1 /\ Top(r).gpc = "calling" /\ tasks'[r] # tasks[r]) =>
               \/ Len(tasks'[r].stack) = Depth(r) + 1
               \/ /\ Len(tasks'[r].stack) = Depth(r)
                  /\ tasks'[r].stack[Depth(r)].gpc = "trapped"
                  /\ tasks'[r].stack[Depth(r)].got = Top(r).got]_vars
    /\ [][\A r \in Reqs : \A n \in 1..Depth(r) :
            (Aborted(r, n) /\ tasks'[r] # tasks[r]) =>
               /\ n = Depth(r)
               /\ Len(tasks'[r].stack) = n - 1
               /\ n >= 2 =>
                     /\ tasks'[r].stack[n - 1].gpc = "trapped"
                     /\ tasks'[r].stack[n - 1].got = tasks[r].stack[n - 1].got
                     /\ tasks'[r].pc = "run"
               /\ n = 1 =>
                     /\ tasks'[r].pc = "handle"
                     /\ tasks'[r].hres.k = "PluginRun"]_vars
    /\ [](\A r \in Reqs :
            (Ended(r) /\ tasks[r].hres.k = "PluginRun") =>
               /\ Len(RespondsOf(r)) = 1
               /\ from_vec(RespondsOf(r)[1].payload) =
                     [tasks[r].msg EXCEPT !.qr = 1, !.rcode = SERVFAIL])

\* a request whose head called the next plugin, found its pool without an
\* object to give, and was answered SERVFAIL
C37_Witness ==
    \E r \in Reqs :
       /\ tasks[r].pc = "done"
       /\ tasks[r].failedAt = 2
       /\ tasks[r].hres.k = "PluginRun"
       /\ Len(RespondsOf(r)) = 1

\* ==================================================================== C38
\* the run of the cache plugin in task r that call_next_plugin has resumed
CacheResumed(r) ==
    /\ tasks[r].pc = "run"
    /\ Depth(r) >= 1
    /\ Top(r).gpc = "resumed"
    /\ chain[Top(r).pool] = "cache"

\* C38: a step changes a map only as the write of one run of the cache
\* plugin that call_next_plugin resumed with Ok bytes that decode to a
\* response with at least one answer: the step writes these bytes into the
\* map of the plugin's pool under the key of the questions of the run's
\* request and changes nothing else; and a run of the cache plugin resumed
\* with none, with a PluginError, with bytes that do not decode or with a
\* response without answers returns with every map as it was.
C38_CacheWritesAnswers ==
    /\ [][plugin_store_map' # plugin_store_map =>
            \E r \in Reqs :
               /\ CacheResumed(r)
               /\ LET f == Top(r)
                      key == from_vec(f.arg).q
                  IN  /\ parses(f.arg)
                      /\ f.got.k = "ok"
                      /\ parses(f.got.data)
                      /\ from_vec(f.got.data).an >= 1
                      /\ key \in DOMAIN plugin_store_map'[f.pool]
                      /\ plugin_store_map'[f.pool][key].data = f.got.data
                      /\ \A p \in 1..Len(chain) :
                            \A k \in DOMAIN plugin_store_map'[p] :
                               (p # f.pool \/ k # key) =>
                                  /\ k \in DOMAIN plugin_store_map[p]
                                  /\ plugin_store_map'[p][k] =
                                        plugin_store_map[p][k]]_vars
    /\ [][\A r \in Reqs :
            (CacheResumed(r) /\ tasks'[r] # tasks[r]
               /\ ~(/\ Top(r).got.k = "ok"
                    /\ parses(Top(r).got.data)
                    /\ from_vec(Top(r).got.data).an >= 1)) =>
               plugin_store_map' = plugin_store_map]_vars
    /\ [](\A p \in 1..Len(chain) : \A k \in DOMAIN plugin_store_map[p] :
            LET e == plugin_store_map[p][k]
            IN  /\ chain[p] = "cache"
                /\ parses(e.data)
                /\ from_vec(e.data).an >= 1)

\* the cache holds the response of the answering plugin to the first
\* request, which was answered with it
C38_Witness ==
    /\ chain = <<"cache", "answer">>
    /\ tasks[1].pc = "done"
    /\ tasks[1].hres.k = "Ok"
    /\ 1 \in DOMAIN plugin_store_map[1]
    /\ plugin_store_map[1][1].data = tasks[1].hres.bytes

====
